---- MODULE Spec2Model ----
(***************************************************************************)
(* Model of the vci-proxy cache server: the downstream BroadcastService    *)
(* (client <-> symbol subscription indexes and fan-out), the CacheManager  *)
(* stock-data store, and the RealtimeManager message handler that feeds    *)
(* both.                                                                   *)
(*                                                                         *)
(* JavaScript Maps are functions whose DOMAIN is the key set; Sets are     *)
(* sets.  Handlers run to completion on a single thread, so every handler  *)
(* is one action.                                                          *)
(***************************************************************************)
EXTENDS Integers, Sequences, FiniteSets, TLC

\* ------------------------------------------------------------------ bounds
MaxClients == 2

\* Partial updates recorded per run of the cache specification.
MaxUpdates == 3

\* Runs of DataInitializer.initialize: the startup load and the scheduled
\* refreshes after it.
MaxRefreshes == 2

\* Upstream messages per run of the delivery-order specification.
MaxEvents == 2

\* Manual reconnect commands issued per run.
MaxManualReconnects == 1

\* WebSocket tunnels of the proxy server that are followed.
MaxTunnels == 2

Clients == 1..MaxClients

\* Symbols a downstream client may name in a subscribe / unsubscribe message.
Symbols == {"VIC", "VHM"}

\* Channel names a client socket listens on for (un)subscription.
SubEventTypes == {"match-price", "bid-ask"}

\* ------------------------------------------------------------- Map helpers
EmptyMap == << >>

MapHas(m, k) == k \in DOMAIN m

MapSet(m, k, v) == [x \in (DOMAIN m) \cup {k} |-> IF x = k THEN v ELSE m[x]]

MapDelete(m, k) == [x \in (DOMAIN m) \ {k} |-> m[x]]

\* ------------------------------------------------------------------- state
VARIABLES
    clientSubscriptions,  \* Map clientId -> Set of symbols
    symbolSubscribers,    \* Map symbol -> Set of clientIds
    connectedClients,     \* Map clientId -> socket (the socket of that id)
    socketState,          \* per socket id: "fresh", "open", "closed", "gone"
    stockData,            \* CacheManager: Map symbol -> StockData
    marketIndexes,        \* CacheManager: Map symbol -> MarketIndex
    lastOp,               \* the handler that ran last, with its arguments
    emitLog,              \* socket.emit attempts of the handler that ran last
    serializeCalls,       \* convertToBinaryData calls of the handler that ran last
    preIndexes,           \* history: the two indexes before lastOp
    roundTrip,            \* history: the indexes before a subscribe that lastOp undid
    initialData,          \* history: stockData at the start of the update log
    updateLog,            \* history: Map symbol -> updateData records applied
    allSymbols,           \* CacheManager.symbols: the tickers with metadata
    symbolsByGroup,       \* CacheManager: Map group -> list of symbols
    companies,            \* CacheManager: the tickers of the company list
    isInitialized,        \* CacheManager.isInitialized
    refresh,              \* DataInitializer.initialize: the await it is parked at
    preRefresh,           \* history: the cache when the running refresh began
    isConnected,          \* RealtimeManager.isConnected
    reconnectAttempts,    \* RealtimeManager.reconnectAttempts
    upstream,             \* the socket.io-client Manager of RealtimeManager.socket
    subscribed,           \* symbols the upstream connection is subscribed to
    realtimeSymbols,      \* RealtimeManager.symbols
    upstreamEmits,        \* socket.emit calls of the upstream handler that ran last
    realtimeManager,      \* startServer: "unset", "set" or "null"
    scheduler,            \* startServer: "unset", "started" or "null"
    arrived,              \* history: upstream messages handled so far
    inbox,                \* history: per client, the messages emitted to it
    tunnels               \* proxy server: readyState of clientWs and targetWs per tunnel

hubVars == <<clientSubscriptions, symbolSubscribers, connectedClients, socketState>>

cacheVars == <<stockData, marketIndexes>>

loadVars == <<allSymbols, symbolsByGroup, companies, isInitialized, refresh, preRefresh>>

feedVars == <<isConnected, reconnectAttempts, upstream, subscribed, realtimeSymbols,
              upstreamEmits>>

orderVars == <<arrived, inbox>>

serverVars == <<realtimeManager, scheduler>>

proxyVars == <<tunnels>>

vars == <<clientSubscriptions, symbolSubscribers, connectedClients, socketState,
          stockData, marketIndexes, lastOp, emitLog, serializeCalls,
          preIndexes, roundTrip, initialData, updateLog,
          allSymbols, symbolsByGroup, companies, isInitialized, refresh, preRefresh,
          isConnected, reconnectAttempts, upstream, subscribed, realtimeSymbols,
          upstreamEmits, realtimeManager, scheduler, arrived, inbox, tunnels>>

\* ------------------------------------------- client (un)subscribe payloads
\* What a client may send on a subscribe / unsubscribe channel:
\*   "array"     a JSON string or object whose symbols field is an array
\*   "nosymbols" an object without (or with a falsy) symbols field
\*   "notarray"  an object whose symbols field is truthy but not an array
\*   "badjson"   a string that JSON.parse rejects
\*   "null"      a null payload (reading .symbols throws)
SymbolLists ==
    { << >>, <<"VIC">>, <<"VHM">>, <<"VIC", "VHM">>, <<"VHM", "VIC">>, <<"VIC", "VIC">> }

NoSymbols == << >>

Payloads ==
    [kind : {"array"}, symbols : SymbolLists]
        \cup [kind : {"nosymbols", "notarray", "badjson", "null"}, symbols : {NoSymbols}]

NoPayload == [kind |-> "none", symbols |-> NoSymbols]

\* const parsedData = typeof data === 'string' ? JSON.parse(data) : data;
\* const symbols = parsedData.symbols || [];
\* TRUE when the handler leaves through the catch block or the isArray guard.
PayloadRejected(data) == data.kind \in {"badjson", "null", "notarray"}

PayloadSymbols(data) == IF data.kind = "array" THEN data.symbols ELSE NoSymbols

\* ------------------------------------------------ BroadcastService indexes
\* The two indexes as one value: cs = clientSubscriptions, ss = symbolSubscribers.
Indexes(cs, ss) == [cs |-> cs, ss |-> ss]

\* Variant of SubscribeSymbol: a symbol that already has an entry does not
\* get the client added to it.
SubscribeSymbolSkipExisting(idx, clientId, symbol) ==
    LET cs1 == MapSet(idx.cs, clientId, idx.cs[clientId] \cup {symbol})
        ss1 == IF ~MapHas(idx.ss, symbol) THEN MapSet(idx.ss, symbol, {clientId}) ELSE idx.ss
    IN  Indexes(cs1, ss1)

\* Variant of SubscribeSymbol: a symbol the client already holds is removed
\* from both indexes.
SubscribeSymbolToggle(idx, clientId, symbol) ==
    IF symbol \in idx.cs[clientId] /\ MapHas(idx.ss, symbol)
    THEN Indexes(MapSet(idx.cs, clientId, idx.cs[clientId] \ {symbol}),
                 MapSet(idx.ss, symbol, idx.ss[symbol] \ {clientId}))
    ELSE LET ss0 == IF ~MapHas(idx.ss, symbol) THEN MapSet(idx.ss, symbol, {}) ELSE idx.ss
         IN  Indexes(MapSet(idx.cs, clientId, idx.cs[clientId] \cup {symbol}),
                     MapSet(ss0, symbol, ss0[symbol] \cup {clientId}))

\* Body of the forEach in handleSubscription, for one symbol.
SubscribeSymbol(idx, clientId, symbol) ==
    LET cs1 == MapSet(idx.cs, clientId, idx.cs[clientId] \cup {symbol})
        ss0 == IF ~MapHas(idx.ss, symbol) THEN MapSet(idx.ss, symbol, {}) ELSE idx.ss
        ss1 == MapSet(ss0, symbol, ss0[symbol] \cup {clientId})
    IN  Indexes(cs1, ss1)

RECURSIVE SubscribeLoop(_, _, _)
SubscribeLoop(idx, clientId, symbols) ==
    IF symbols = << >> THEN idx
    ELSE SubscribeLoop(SubscribeSymbol(idx, clientId, Head(symbols)), clientId, Tail(symbols))

\* handleSubscription as a function on the indexes.
Subscribe(idx, clientId, data) ==
    IF PayloadRejected(data) THEN idx
    ELSE LET idx0 == IF ~MapHas(idx.cs, clientId)
                     THEN Indexes(MapSet(idx.cs, clientId, {}), idx.ss)
                     ELSE idx
         IN  SubscribeLoop(idx0, clientId, PayloadSymbols(data))

\* Variant of UnsubscribeSymbol: the symbol stays in the client's own set.
UnsubscribeSymbolKeepInterest(idx, clientId, symbol) ==
    LET ss1 == IF MapHas(idx.ss, symbol)
               THEN LET remaining == idx.ss[symbol] \ {clientId}
                    IN  IF Cardinality(remaining) = 0
                        THEN MapDelete(idx.ss, symbol)
                        ELSE MapSet(idx.ss, symbol, remaining)
               ELSE idx.ss
    IN  Indexes(idx.cs, ss1)

\* Variant of UnsubscribeSymbol: the entry of the symbol is deleted whoever
\* else subscribes to it.
UnsubscribeSymbolPruneAlways(idx, clientId, symbol) ==
    Indexes(MapSet(idx.cs, clientId, idx.cs[clientId] \ {symbol}), MapDelete(idx.ss, symbol))

\* Body of the forEach in handleUnsubscription, for one symbol.
UnsubscribeSymbol(idx, clientId, symbol) ==
    LET cs1 == MapSet(idx.cs, clientId, idx.cs[clientId] \ {symbol})
        ss1 == IF MapHas(idx.ss, symbol)
               THEN LET remaining == idx.ss[symbol] \ {clientId}
                    IN  IF Cardinality(remaining) = 0
                        THEN MapDelete(idx.ss, symbol)
                        ELSE MapSet(idx.ss, symbol, remaining)
               ELSE idx.ss
    IN  Indexes(cs1, ss1)

RECURSIVE UnsubscribeLoop(_, _, _)
UnsubscribeLoop(idx, clientId, symbols) ==
    IF symbols = << >> THEN idx
    ELSE UnsubscribeLoop(UnsubscribeSymbol(idx, clientId, Head(symbols)), clientId, Tail(symbols))

\* handleUnsubscription as a function on the indexes.
Unsubscribe(idx, clientId, data) ==
    IF PayloadRejected(data) THEN idx
    ELSE IF ~MapHas(idx.cs, clientId) THEN idx
    ELSE UnsubscribeLoop(idx, clientId, PayloadSymbols(data))

\* Variant of DisconnectSymbol: the client stays in the subscriber set.
DisconnectSymbolKeepClient(ss, clientId, symbol) == ss

\* Variant of DisconnectSymbol: an emptied subscriber set is left in place.
DisconnectSymbolNoPrune(ss, clientId, symbol) ==
    IF MapHas(ss, symbol) THEN MapSet(ss, symbol, ss[symbol] \ {clientId}) ELSE ss

\* Body of the forEach in handleDisconnection, for one symbol of the client.
DisconnectSymbol(ss, clientId, symbol) ==
    IF MapHas(ss, symbol)
    THEN LET remaining == ss[symbol] \ {clientId}
         IN  IF Cardinality(remaining) = 0
             THEN MapDelete(ss, symbol)
             ELSE MapSet(ss, symbol, remaining)
    ELSE ss

RECURSIVE DisconnectLoop(_, _, _)
DisconnectLoop(ss, clientId, clientSymbols) ==
    IF clientSymbols = {} THEN ss
    ELSE LET symbol == CHOOSE s \in clientSymbols : TRUE
         IN  DisconnectLoop(DisconnectSymbol(ss, clientId, symbol), clientId,
                            clientSymbols \ {symbol})

\* Variant of Disconnect: the indexes are not cleaned up.
DisconnectKeepIndexes(idx, clientId) == idx

\* The index part of handleDisconnection.
Disconnect(idx, clientId) ==
    IF MapHas(idx.cs, clientId)
    THEN Indexes(MapDelete(idx.cs, clientId),
                 DisconnectLoop(idx.ss, clientId, idx.cs[clientId]))
    ELSE idx

\* The connection-map part of handleDisconnection.
DisconnectSocket(cc, clientId) == MapDelete(cc, clientId)


\* fan-out of one event ------------------------------------------------------
\* Buffer.from(JSON.stringify(data)): the bytes are a JSON encoding of data.
convertToBinaryData(data) == <<"Buffer", "JSON", data>>

NoBytes == << >>

Emit(clientId, outcome, eventType, bytes) ==
    [client |-> clientId, outcome |-> outcome, eventType |-> eventType, bytes |-> bytes]

\* Variant of SocketOpen: socket.connected is not consulted.
SocketOpenIgnoreConnected(cc, sockets, clientId) == MapHas(cc, clientId)

\* const socket = this.connectedClients.get(clientId); socket && socket.connected
SocketOpen(cc, sockets, clientId) == MapHas(cc, clientId) /\ sockets[cc[clientId]] = "open"

\* Body of subscribers.forEach in broadcastUpdate, for one subscriber.
\* throwing is the set of clients whose socket.emit raises an exception.
BroadcastOne(cc, sockets, clientId, eventType, binaryData, throwing) ==
    IF SocketOpen(cc, sockets, clientId)
    THEN IF clientId \in throwing
         THEN Emit(clientId, "threw", eventType, binaryData)
         ELSE Emit(clientId, "sent", eventType, binaryData)
    ELSE Emit(clientId, "skipped", eventType, NoBytes)

\* Variant of BroadcastLoop: the loop ends at the first subscriber that is
\* not connected.
RECURSIVE BroadcastLoopStopAtClosed(_, _, _, _, _, _, _)
BroadcastLoopStopAtClosed(subscribers, cc, sockets, eventType, binaryData, throwing, log) ==
    IF subscribers = {} THEN log
    ELSE LET clientId == CHOOSE c \in subscribers : \A d \in subscribers : c <= d
             entry == BroadcastOne(cc, sockets, clientId, eventType, binaryData, throwing)
         IN  IF entry.outcome = "skipped" THEN Append(log, entry)
             ELSE BroadcastLoopStopAtClosed(subscribers \ {clientId}, cc, sockets, eventType,
                                            binaryData, throwing, Append(log, entry))

\* Variant of BroadcastLoop: an exception of socket.emit is not caught and
\* ends the loop.
RECURSIVE BroadcastLoopAbortOnThrow(_, _, _, _, _, _, _)
BroadcastLoopAbortOnThrow(subscribers, cc, sockets, eventType, binaryData, throwing, log) ==
    IF subscribers = {} THEN log
    ELSE LET clientId == CHOOSE c \in subscribers : \A d \in subscribers : c <= d
             entry == BroadcastOne(cc, sockets, clientId, eventType, binaryData, throwing)
         IN  IF entry.outcome = "threw" THEN Append(log, entry)
             ELSE BroadcastLoopAbortOnThrow(subscribers \ {clientId}, cc, sockets, eventType,
                                            binaryData, throwing, Append(log, entry))

RECURSIVE BroadcastLoop(_, _, _, _, _, _, _)
BroadcastLoop(subscribers, cc, sockets, eventType, binaryData, throwing, log) ==
    IF subscribers = {} THEN log
    ELSE LET clientId == CHOOSE c \in subscribers : \A d \in subscribers : c <= d
         IN  BroadcastLoop(subscribers \ {clientId}, cc, sockets, eventType, binaryData,
                           throwing,
                           Append(log, BroadcastOne(cc, sockets, clientId, eventType,
                                                    binaryData, throwing)))

NoBroadcast == [serialized |-> 0, log |-> << >>]

\* Variant of broadcastUpdate: a symbol with subscribers is sent to every
\* connected client.
broadcastUpdateAllClients(ss, cc, sockets, symbol, eventType, data, throwing) ==
    IF ~MapHas(ss, symbol) \/ Cardinality(ss[symbol]) = 0
    THEN NoBroadcast
    ELSE [serialized |-> 1,
          log |-> BroadcastLoop(DOMAIN cc, cc, sockets, eventType,
                                convertToBinaryData(data), throwing, << >>)]

\* Variant of broadcastUpdate: the payload is serialized before the
\* subscriber lookup.
broadcastUpdateSerializeFirst(ss, cc, sockets, symbol, eventType, data, throwing) ==
    IF ~MapHas(ss, symbol) \/ Cardinality(ss[symbol]) = 0
    THEN [serialized |-> 1, log |-> << >>]
    ELSE [serialized |-> 1,
          log |-> BroadcastLoop(ss[symbol], cc, sockets, eventType,
                                convertToBinaryData(data), throwing, << >>)]

\* Variant of broadcastUpdate: bid-ask events are held back.
broadcastUpdateSkipBidAsk(ss, cc, sockets, symbol, eventType, data, throwing) ==
    IF ~MapHas(ss, symbol) \/ Cardinality(ss[symbol]) = 0 \/ eventType = "bid-ask"
    THEN NoBroadcast
    ELSE [serialized |-> 1,
          log |-> BroadcastLoop(ss[symbol], cc, sockets, eventType,
                                convertToBinaryData(data), throwing, << >>)]

\* broadcastUpdate: the number of convertToBinaryData calls and the emit log.
broadcastUpdate(ss, cc, sockets, symbol, eventType, data, throwing) ==
    IF ~MapHas(ss, symbol) \/ Cardinality(ss[symbol]) = 0
    THEN NoBroadcast
    ELSE [serialized |-> 1,
          log |-> BroadcastLoop(ss[symbol], cc, sockets, eventType,
                                convertToBinaryData(data), throwing, << >>)]

\* ------------------------------------------------------------ CacheManager
EmptyObject == << >>

\* { ...a, ...b }
Spread(a, b) == [k \in (DOMAIN a) \cup (DOMAIN b) |-> IF k \in DOMAIN b THEN b[k] ELSE a[k]]

setStockData(sd, symbol, data) == MapSet(sd, symbol, data)

\* Variant of updateStockData: the update replaces the existing record.
updateStockDataReplace(sd, symbol, updateData) == setStockData(sd, symbol, updateData)

\* Variant of updateStockData: only the price fields of the update are
\* stored, the rest of the update is left out.
updateStockDataTorn(sd, symbol, updateData) ==
    LET existingData == IF MapHas(sd, symbol) THEN sd[symbol] ELSE EmptyObject
        stored == (DOMAIN updateData) \cap {"khopLenhGia", "duMuaGia1"}
    IN  setStockData(sd, symbol, Spread(existingData, [f \in stored |-> updateData[f]]))

updateStockData(sd, symbol, updateData) ==
    LET existingData == IF MapHas(sd, symbol) THEN sd[symbol] ELSE EmptyObject
    IN  setStockData(sd, symbol, Spread(existingData, updateData))

setMarketIndex(mi, symbol, data) == MapSet(mi, symbol, data)

Elements(list) == {list[i] : i \in 1..Len(list)}

\* getStockDataBySymbols: the records of the listed symbols that are stored.
getStockDataBySymbols(sd, symbols) ==
    [symbol \in {x \in Elements(symbols) : MapHas(sd, x)} |-> sd[symbol]]

\* Variant of the setMultipleStockData loop: each record is merged into the
\* existing one.
RECURSIVE setMultipleLoopMerge(_, _, _)
setMultipleLoopMerge(sd, stockDataMap, todo) ==
    IF todo = {} THEN sd
    ELSE LET symbol == CHOOSE x \in todo : TRUE
         IN  setMultipleLoopMerge(updateStockData(sd, symbol, stockDataMap[symbol]),
                                  stockDataMap, todo \ {symbol})

\* Object.entries(stockDataMap).forEach(([symbol, data]) => setStockData(symbol, data))
RECURSIVE setMultipleLoop(_, _, _)
setMultipleLoop(sd, stockDataMap, todo) ==
    IF todo = {} THEN sd
    ELSE LET symbol == CHOOSE x \in todo : TRUE
         IN  setMultipleLoop(setStockData(sd, symbol, stockDataMap[symbol]),
                             stockDataMap, todo \ {symbol})

\* Variant of setMultipleStockData: the map is cleared before the entries are
\* set.
setMultipleStockDataClear(sd, stockDataMap) ==
    setMultipleLoop(EmptyMap, stockDataMap, DOMAIN stockDataMap)

setMultipleStockData(sd, stockDataMap) == setMultipleLoop(sd, stockDataMap, DOMAIN stockDataMap)

\* --------------------------------------------------------- RealtimeManager
FeedTypes == {"match-price", "bid-ask", "index"}

\* Number(x.toFixed(0)) for a value carried in tenths: nearest integer, a tie
\* goes away from zero.
ToFixed0(tenths) ==
    IF tenths >= 0 THEN (tenths + 5) \div 10 ELSE 0 - ((5 - tenths) \div 10)

\* ((matchPrice - referencePrice) / referencePrice) * 100, for the reference
\* prices of the model, which divide the difference exactly.
PercentOf(change, referencePrice) == (change * 100) \div referencePrice

\* updateData of the match-price branch of updateCache.  avgMatchPrice is
\* carried in tenths, every other number in units.
MatchPriceUpdate(message) ==
    [khopLenhGia |-> message.matchPrice,
     khopLenhKL |-> message.matchVol,
     khopLenhChange |-> message.matchPrice - message.referencePrice,
     khopLenhPercent |-> PercentOf(message.matchPrice - message.referencePrice,
                                   message.referencePrice),
     khopLenhKLGD |-> message.accumulatedVolume,
     khopLenhGTGD |-> message.accumulatedValue,
     gtgdTT |-> message.accumulatedValue,
     nnRoom |-> message.currentRoom,
     nnMua |-> message.foreignBuyVolume,
     nnBan |-> message.foreignSellVolume,
     tb |-> IF message.avgMatchPrice # 0 THEN ToFixed0(message.avgMatchPrice)
            ELSE message.avgMatchPrice,
     cao |-> message.highest,
     thap |-> message.lowest]

\* levels[i]?.price ?? 0 (JavaScript index i is position i + 1 here)
LevelOr0(levels, i, field) == IF i + 1 <= Len(levels) THEN levels[i + 1][field] ELSE 0

\* updateData of the bid-ask branch of updateCache.
BidAskUpdate(message) ==
    [duMuaGia1 |-> LevelOr0(message.bidPrices, 0, "price"),
     duMuaKL1 |-> LevelOr0(message.bidPrices, 0, "volume"),
     duMuaGia2 |-> LevelOr0(message.bidPrices, 1, "price"),
     duMuaKL2 |-> LevelOr0(message.bidPrices, 1, "volume"),
     duMuaGia3 |-> LevelOr0(message.bidPrices, 2, "price"),
     duMuaKL3 |-> LevelOr0(message.bidPrices, 2, "volume"),
     duBanGia1 |-> LevelOr0(message.askPrices, 0, "price"),
     duBanKL1 |-> LevelOr0(message.askPrices, 0, "volume"),
     duBanGia2 |-> LevelOr0(message.askPrices, 1, "price"),
     duBanKL2 |-> LevelOr0(message.askPrices, 1, "volume"),
     duBanGia3 |-> LevelOr0(message.askPrices, 2, "price"),
     duBanKL3 |-> LevelOr0(message.askPrices, 2, "volume")]

\* indexData of the index branch of updateCache.
IndexData(message) ==
    [code |-> message.code,
     symbol |-> message.symbol,
     price |-> message.price,
     change |-> message.change,
     changePercent |-> message.changePercent,
     totalShares |-> message.totalShares,
     totalValue |-> message.totalValue,
     totalStockIncrease |-> message.totalStockIncrease,
     totalStockDecline |-> message.totalStockDecline,
     totalStockNoChange |-> message.totalStockNoChange,
     totalStockCeiling |-> message.totalStockCeiling,
     totalStockFloor |-> message.totalStockFloor,
     estimatedChange |-> message.estimatedChange,
     estimatedFsp |-> message.estimatedFsp,
     time |-> message.time,
     messageType |-> "index",
     sendingTime |-> message.time]

\* message.symbol.includes('VN30'), over the index codes of the model.
IncludesVN30(symbol) == symbol \in {"VN30", "VN30F1M"}

\* TRUE when updateCache calls cacheManager.updateStockData for this message.
IsStockUpdate(type) == type \in {"match-price", "bid-ask"}

StockUpdateOf(message, type) ==
    IF type = "match-price" THEN MatchPriceUpdate(message) ELSE BidAskUpdate(message)

\* updateCache: the cache after the message has been applied.
updateCache(sd, mi, message, type) ==
    IF IsStockUpdate(type)
    THEN [stockData |-> updateStockData(sd, message.symbol, StockUpdateOf(message, type)),
          marketIndexes |-> mi]
    ELSE IF type = "index" /\ IncludesVN30(message.symbol)
    THEN [stockData |-> sd,
          marketIndexes |-> setMarketIndex(mi, message.symbol, IndexData(message))]
    ELSE [stockData |-> sd, marketIndexes |-> mi]

\* A payload on the upstream socket: decodes tells whether messageType.decode
\* accepts the bytes, message is the object toObject(..., defaults) returns.
Wire(decodes, message) == [decodes |-> decodes, message |-> message]

\* Variant of MessageDropped: the symbol of the decoded message is not checked.
MessageDroppedDecodeOnly(wire) == ~wire.decodes

\* handleMessage returns before updateCache: decode threw, or symbol is empty.
MessageDropped(wire) == ~wire.decodes \/ wire.message.symbol = ""

\* --------------------------------------------------------- DataInitializer
\* x || 0 for a number x
Or0(x) == IF x = 0 THEN 0 ELSE x

\* transformCompressedToStockData.  avgp is carried in tenths.
transformCompressedToStockData(model) ==
    LET priceChange == model.c - model.ref
        priceChangePercent == IF model.ref > 0 THEN PercentOf(priceChange, model.ref) ELSE 0
    IN  [maCK |-> model.s, tran |-> model.cei, tc |-> model.ref, san |-> model.flo,
         duMuaGia3 |-> Or0(model.bp3), duMuaKL3 |-> Or0(model.bv3),
         duMuaGia2 |-> Or0(model.bp2), duMuaKL2 |-> Or0(model.bv2),
         duMuaGia1 |-> Or0(model.bp1), duMuaKL1 |-> Or0(model.bv1),
         khopLenhGia |-> Or0(model.c), khopLenhKL |-> Or0(model.mv),
         khopLenhChange |-> priceChange, khopLenhPercent |-> priceChangePercent,
         khopLenhKLGD |-> Or0(model.vo), khopLenhGTGD |-> Or0(model.va),
         duBanGia1 |-> Or0(model.ap1), duBanKL1 |-> Or0(model.av1),
         duBanGia2 |-> Or0(model.ap2), duBanKL2 |-> Or0(model.av2),
         duBanGia3 |-> Or0(model.ap3), duBanKL3 |-> Or0(model.av3),
         cao |-> Or0(model.h),
         tb |-> IF model.avgp # 0 THEN ToFixed0(model.avgp) ELSE model.avgp,
         thap |-> Or0(model.l),
         nnMua |-> Or0(model.frbv), nnBan |-> Or0(model.frsv), nnRoom |-> Or0(model.frcrr),
         klgdTT |-> Or0(model.vo), gtgdTT |-> Or0(model.va)]

\* Variant of exchanges: HNX is loaded before HOSE.
exchangesHnxFirst == <<"HNX", "HOSE", "UPCOM", "VN30", "HNX30">>

\* const exchanges = ['HOSE', 'HNX', 'UPCOM', 'VN30', 'HNX30'];
exchanges == <<"HOSE", "HNX", "UPCOM", "VN30", "HNX30">>

\* symbols.filter((symbol) => symbol.group !== 'DELISTED' && symbol.type === 'STOCK')
IsListedStock(info) == info.group # "DELISTED" /\ info.type = "STOCK"

\* setSymbols: clear(), then set(symbol.symbol, symbol) for each element.
RECURSIVE setSymbolsLoop(_, _, _)
setSymbolsLoop(map, list, i) ==
    IF i > Len(list) THEN map
    ELSE setSymbolsLoop(MapSet(map, list[i].symbol, list[i]), list, i + 1)

setSymbols(list) == setSymbolsLoop(EmptyMap, list, 1)

setSymbolsByGroup(groups, group, list) == MapSet(groups, group, list)

\* Variant of getSymbolsByGroup: a group without entry reads as HOSE.
getSymbolsByGroupDefaultHose(groups, group) ==
    IF MapHas(groups, group) THEN groups[group]
    ELSE IF MapHas(groups, "HOSE") THEN groups["HOSE"] ELSE << >>

\* this.symbolsByGroup.get(group) || []
getSymbolsByGroup(groups, group) == IF MapHas(groups, group) THEN groups[group] ELSE << >>

getStockDataByGroup(sd, groups, group) ==
    getStockDataBySymbols(sd, getSymbolsByGroup(groups, group))

\* ['HOSE', 'HNX', 'UPCOM', 'VN30', 'HNX30'] of getAllSymbolsForRealtime
realtimeExchanges == <<"HOSE", "HNX", "UPCOM", "VN30", "HNX30">>

\* const marketIndexes = ['VN30', 'VNINDEX', 'HNX30', 'HNXIndex', 'HNXUpcomIndex'];
marketIndexSymbols == <<"VN30", "VNINDEX", "HNX30", "HNXIndex", "HNXUpcomIndex">>

\* allSymbols.push(...cacheManager.getSymbolsByGroup(exchange)) per exchange
RECURSIVE PushGroups(_, _, _)
PushGroups(list, groups, i) ==
    IF i > Len(realtimeExchanges) THEN list
    ELSE PushGroups(list \o getSymbolsByGroup(groups, realtimeExchanges[i]), groups, i + 1)

\* [...new Set(list)]: each element once, at its first position.
RECURSIVE Unique(_, _, _)
Unique(out, list, i) ==
    IF i > Len(list) THEN out
    ELSE Unique(IF list[i] \in Elements(out) THEN out ELSE Append(out, list[i]), list, i + 1)

getAllSymbolsForRealtime(groups) ==
    Unique(<< >>, PushGroups(<< >>, groups, 1) \o marketIndexSymbols, 1)

\* Object.entries(indexesMap).forEach(([symbol, data]) => setMarketIndex(symbol, data))
RECURSIVE setMarketIndexesLoop(_, _, _)
setMarketIndexesLoop(mi, indexesMap, todo) ==
    IF todo = {} THEN mi
    ELSE LET symbol == CHOOSE x \in todo : TRUE
         IN  setMarketIndexesLoop(setMarketIndex(mi, symbol, indexesMap[symbol]),
                                  indexesMap, todo \ {symbol})

setMarketIndexes(mi, indexesMap) == setMarketIndexesLoop(mi, indexesMap, DOMAIN indexesMap)

\* stockDataArray.forEach((item) => stockDataMap[item.s] = transform(item))
RECURSIVE StockDataMapLoop(_, _, _)
StockDataMapLoop(map, stockDataArray, i) ==
    IF i > Len(stockDataArray) THEN map
    ELSE StockDataMapLoop(MapSet(map, stockDataArray[i].s,
                                 transformCompressedToStockData(stockDataArray[i])),
                          stockDataArray, i + 1)

StockDataMapOf(stockDataArray) == StockDataMapLoop(EmptyMap, stockDataArray, 1)

\* indexes.forEach((index) => indexesMap[index.symbol] = index)
RECURSIVE IndexesMapLoop(_, _, _)
IndexesMapLoop(map, indexes, i) ==
    IF i > Len(indexes) THEN map
    ELSE IndexesMapLoop(MapSet(map, indexes[i].symbol, indexes[i]), indexes, i + 1)

IndexesMapOf(indexes) == IndexesMapLoop(EmptyMap, indexes, 1)

\* isReady()
isReady(initialized, symbolsMap, sd) ==
    initialized /\ Cardinality(DOMAIN symbolsMap) > 0 /\ Cardinality(DOMAIN sd) > 0

\* ------------------------------------------------------------ model inputs
\* A compressed item of the getList response.
CompressedItem(symbol) ==
    [s |-> symbol, cei |-> 107, ref |-> 100, flo |-> 93,
     bp1 |-> 99, bv1 |-> 50, bp2 |-> 98, bv2 |-> 60, bp3 |-> 97, bv3 |-> 70,
     c |-> 101, mv |-> 5, vo |-> 900, va |-> 90000,
     ap1 |-> 102, av1 |-> 40, ap2 |-> 103, av2 |-> 30, ap3 |-> 104, av3 |-> 20,
     h |-> 103, avgp |-> 1004, l |-> 99, frbv |-> 1, frsv |-> 2, frcrr |-> 8]

\* What the vietcap API answers during run number run of initialize().
\* Between one run and the next the HOSE list drops VHM and gains FPT, and
\* every price moves.
SymbolInfo(symbol, group, type) == [symbol |-> symbol, group |-> group, type |-> type]

AllSymbolsResponse(run) ==
    << SymbolInfo("VIC", "HOSE", "STOCK"),
       SymbolInfo(IF run % 2 = 1 THEN "VHM" ELSE "FPT", "HOSE", "STOCK"),
       SymbolInfo("SHS", "HNX", "STOCK"),
       SymbolInfo("BSR", "UPCOM", "STOCK"),
       SymbolInfo("ROS", "DELISTED", "STOCK"),
       SymbolInfo("E1VFVN30", "HOSE", "ETF") >>

CompaniesResponse(run) == << [ticker |-> "VIC"], [ticker |-> "SHS"] >>

GroupSymbolsOf(exchange, run) ==
    IF exchange = "HOSE" THEN <<"VIC", IF run % 2 = 1 THEN "VHM" ELSE "FPT">>
    ELSE IF exchange = "HNX" THEN <<"SHS">>
    ELSE IF exchange = "UPCOM" THEN <<"BSR">>
    ELSE IF exchange = "VN30" THEN <<"VIC">>
    ELSE <<"SHS">>

\* symbolsResponse.data
GroupSymbolsResponse(exchange, run) ==
    [i \in 1..Len(GroupSymbolsOf(exchange, run)) |->
        [symbol |-> GroupSymbolsOf(exchange, run)[i]]]

CompressedItemOf(symbol, run) ==
    [CompressedItem(symbol) EXCEPT !.c = 100 + run, !.mv = 5 * run]

\* stockDataResponse.data
GroupDataResponse(exchange, run) ==
    [i \in 1..Len(GroupSymbolsOf(exchange, run)) |->
        CompressedItemOf(GroupSymbolsOf(exchange, run)[i], run)]

MarketIndexesResponse(run) ==
    << [symbol |-> "VN30", price |-> 1500 + run], [symbol |-> "VNINDEX", price |-> 1300 + run] >>

\* Decoded upstream messages.
MatchPriceMessage(symbol, matchPrice, avgMatchPrice) ==
    [symbol |-> symbol, matchPrice |-> matchPrice, matchVol |-> 10,
     referencePrice |-> 100, accumulatedVolume |-> 1000, accumulatedValue |-> 50000,
     currentRoom |-> 7, foreignBuyVolume |-> 3, foreignSellVolume |-> 4,
     avgMatchPrice |-> avgMatchPrice, highest |-> 112, lowest |-> 98]

Level(price, volume) == [price |-> price, volume |-> volume]

BidAskMessage(symbol, bidPrices, askPrices) ==
    [symbol |-> symbol, bidPrices |-> bidPrices, askPrices |-> askPrices]

IndexMessage(symbol, price) ==
    [code |-> symbol, symbol |-> symbol, price |-> price, change |-> 5, changePercent |-> 1,
     totalShares |-> 100, totalValue |-> 200, totalStockIncrease |-> 3,
     totalStockDecline |-> 2, totalStockNoChange |-> 1, totalStockCeiling |-> 0,
     totalStockFloor |-> 0, estimatedChange |-> 0, estimatedFsp |-> 0, time |-> 900]

FeedInput(type, wire) == [type |-> type, wire |-> wire]

\* Upstream payloads of the pipeline specification.
FeedInputs ==
    << FeedInput("match-price", Wire(TRUE, MatchPriceMessage("VIC", 110, 1046))),
       FeedInput("bid-ask", Wire(TRUE, BidAskMessage("VHM", <<Level(99, 5)>>, << >>))),
       FeedInput("index", Wire(TRUE, IndexMessage("VN30", 1500))),
       FeedInput("match-price", Wire(FALSE, [symbol |-> ""])),
       FeedInput("bid-ask", Wire(TRUE, BidAskMessage("", << >>, << >>))) >>

\* Client payloads of the pipeline specification.
FeedPayloads == [kind : {"array"}, symbols : {<<"VIC">>, <<"VHM">>, <<"VIC", "VHM">>}]

\* ------------------------------------------------------------------- Init
Op(op, clientId, eventType, data) ==
    [op |-> op, client |-> clientId, eventType |-> eventType, data |-> data]

\* A handler that runs for no downstream client: client 0.
FeedOp(op, eventType, data) == Op(op, 0, eventType, data)

CurIndexes == Indexes(clientSubscriptions, symbolSubscribers)

NoRoundTrip == [valid |-> FALSE, cs |-> EmptyMap, ss |-> EmptyMap]

Tunnels == 1..MaxTunnels

\* Before the "connection" event of a tunnel there is no clientWs and no
\* targetWs; afterwards client and target hold their readyState.
NoTunnel == [client |-> "NONE", target |-> "NONE"]

\* No initialize() call is running and none has run.
NoRefresh == [pc |-> "idle", group |-> 0, run |-> 0, outcome |-> "none", at |-> "idle"]

Snapshot(sd, groups) == [stockData |-> sd, symbolsByGroup |-> groups]

NoSnapshot == Snapshot(EmptyMap, EmptyMap)

\* RealtimeManager.socket is null until initialize() calls setupSocket().
\* state is where the socket.io-client Manager stands, attempts its backoff
\* counter, manual the number of manual reconnects so far.
NoSocket == [state |-> "none", attempts |-> 0, manual |-> 0]

InitWith(sd) ==
    /\ clientSubscriptions = EmptyMap
    /\ symbolSubscribers = EmptyMap
    /\ connectedClients = EmptyMap
    /\ socketState = [c \in Clients |-> "fresh"]
    /\ stockData = sd
    /\ marketIndexes = EmptyMap
    /\ lastOp = FeedOp("init", "", NoPayload)
    /\ emitLog = << >>
    /\ serializeCalls = 0
    /\ preIndexes = Indexes(EmptyMap, EmptyMap)
    /\ roundTrip = NoRoundTrip
    /\ initialData = sd
    /\ updateLog = EmptyMap
    /\ allSymbols = EmptyMap
    /\ symbolsByGroup = EmptyMap
    /\ companies = << >>
    /\ isInitialized = FALSE
    /\ refresh = NoRefresh
    /\ preRefresh = NoSnapshot
    /\ isConnected = FALSE
    /\ reconnectAttempts = 0
    /\ upstream = NoSocket
    /\ subscribed = {}
    /\ realtimeSymbols = << >>
    /\ upstreamEmits = << >>
    /\ realtimeManager = "unset"
    /\ scheduler = "unset"
    /\ arrived = << >>
    /\ inbox = [c \in Clients |-> << >>]
    /\ tunnels = [i \in Tunnels |-> NoTunnel]

Init == InitWith(EmptyMap)

\* ----------------------------------------------------------- Hub actions
NoFanOut == emitLog' = << >> /\ serializeCalls' = 0

\* io.on('connection'): a socket with a fresh id is registered.  Socket ids
\* are never reused; they are handed out in increasing order.
ClientConnect(c) ==
    /\ socketState[c] = "fresh"
    /\ \A d \in Clients : d < c => socketState[d] # "fresh"
    /\ connectedClients' = MapSet(connectedClients, c, c)
    /\ socketState' = [socketState EXCEPT ![c] = "open"]
    /\ lastOp' = Op("connect", c, "", NoPayload)
    /\ NoFanOut
    /\ UNCHANGED <<clientSubscriptions, symbolSubscribers, stockData, marketIndexes>>

\* The transport of an open socket is lost: socket.connected becomes false.
\* The 'disconnect' event reaches handleDisconnection in a later step.
TransportClose(c) ==
    /\ socketState[c] = "open"
    /\ socketState' = [socketState EXCEPT ![c] = "closed"]
    /\ lastOp' = Op("close", c, "", NoPayload)
    /\ NoFanOut
    /\ UNCHANGED <<clientSubscriptions, symbolSubscribers, connectedClients,
                   stockData, marketIndexes>>

\* socket.on('match-price' | 'bid-ask'): events are dispatched only while the
\* socket is connected.
handleSubscription(clientId, eventType, data) ==
    /\ socketState[clientId] = "open"
    /\ LET idx == Subscribe(CurIndexes, clientId, data)
       IN  /\ clientSubscriptions' = idx.cs
           /\ symbolSubscribers' = idx.ss
    /\ lastOp' = Op("subscribe", clientId, eventType, data)
    /\ NoFanOut
    /\ UNCHANGED <<connectedClients, socketState, stockData, marketIndexes>>

\* socket.on('unsubscribe-match-price' | 'unsubscribe-bid-ask')
handleUnsubscription(clientId, eventType, data) ==
    /\ socketState[clientId] = "open"
    /\ LET idx == Unsubscribe(CurIndexes, clientId, data)
       IN  /\ clientSubscriptions' = idx.cs
           /\ symbolSubscribers' = idx.ss
    /\ lastOp' = Op("unsubscribe", clientId, eventType, data)
    /\ NoFanOut
    /\ UNCHANGED <<connectedClients, socketState, stockData, marketIndexes>>

\* socket.on('disconnect'): emitted once per socket.
handleDisconnection(clientId) ==
    /\ socketState[clientId] \in {"open", "closed"}
    /\ LET idx == Disconnect(CurIndexes, clientId)
       IN  /\ clientSubscriptions' = idx.cs
           /\ symbolSubscribers' = idx.ss
    /\ connectedClients' = DisconnectSocket(connectedClients, clientId)
    /\ socketState' = [socketState EXCEPT ![clientId] = "gone"]
    /\ lastOp' = Op("disconnect", clientId, "", NoPayload)
    /\ NoFanOut
    /\ UNCHANGED <<stockData, marketIndexes>>

\* -------------------------------------------------------- upstream message
\* socket.on('match-price' | 'bid-ask' | 'index') of the upstream socket:
\* handleMessage, i.e. decode, updateCache, then the onUpdate callback
\* broadcastService.broadcastUpdate(message.symbol, type, message).
handleMessage(type, wire, throwing) ==
    /\ IF MessageDropped(wire)
       THEN /\ UNCHANGED <<stockData, marketIndexes>>
            /\ NoFanOut
       ELSE LET cache == updateCache(stockData, marketIndexes, wire.message, type)
                fanOut == broadcastUpdate(symbolSubscribers, connectedClients, socketState,
                                          wire.message.symbol, type, wire.message, throwing)
            IN  /\ stockData' = cache.stockData
                /\ marketIndexes' = cache.marketIndexes
                /\ emitLog' = fanOut.log
                /\ serializeCalls' = fanOut.serialized
    /\ lastOp' = FeedOp("message", type, wire)
    /\ UNCHANGED <<clientSubscriptions, symbolSubscribers, connectedClients, socketState>>

\* Subscribers of the message's symbol whose socket.emit can be reached.
OpenSubscribers(wire) ==
    IF MessageDropped(wire) \/ ~MapHas(symbolSubscribers, wire.message.symbol) THEN {}
    ELSE {c \in symbolSubscribers[wire.message.symbol] :
              SocketOpen(connectedClients, socketState, c)}

\* ----------------------------------------------------- upstream connection
\* this.maxReconnectAttempts = 5;
maxReconnectAttempts == 5

\* config.reconnectionAttempts, passed to io() with reconnection: true
reconnectionAttempts == 5

UpstreamEmit(channel, symbolList) == [channel |-> channel, symbols |-> symbolList]

\* Variant of subscribeToSymbols: nothing is emitted.
subscribeToSymbolsSilent(socketSet, connected, symbolList) == << >>

\* subscribeToSymbols(): returns without emitting unless the socket exists
\* and isConnected; else one emit per channel, { symbols } as JSON.
subscribeToSymbols(socketSet, connected, symbolList) ==
    IF ~socketSet \/ ~connected THEN << >>
    ELSE << UpstreamEmit("match-price", symbolList),
            UpstreamEmit("bid-ask", symbolList),
            UpstreamEmit("index", marketIndexSymbols) >>

FeedFrame ==
    /\ NoFanOut
    /\ UNCHANGED <<hubVars, cacheVars, preIndexes, roundTrip, initialData, updateLog,
                   loadVars, orderVars, serverVars, proxyVars>>

\* Manager.reconnect() after a failed attempt or a lost connection: give up
\* once reconnectionAttempts reconnection attempts have been made, else
\* start the timer of the next one.
Reconnect(manager) ==
    IF manager.attempts >= reconnectionAttempts
    THEN [manager EXCEPT !.state = "failed", !.attempts = 0]
    ELSE [manager EXCEPT !.state = "backoff", !.attempts = manager.attempts + 1]

\* RealtimeManager.initialize(): setupSocket() calls io(...), which starts
\* the first connection attempt.
setupSocket ==
    /\ upstream' = [upstream EXCEPT !.state = "opening"]
    /\ upstreamEmits' = << >>
    /\ UNCHANGED <<isConnected, reconnectAttempts, subscribed>>

realtimeInitialize ==
    /\ upstream.state = "none"
    /\ realtimeSymbols' = getAllSymbolsForRealtime(symbolsByGroup)
    /\ setupSocket
    /\ lastOp' = FeedOp("realtimeInitialize", "", NoPayload)
    /\ FeedFrame

AttemptInFlight == upstream.state \in {"opening", "reopening"}

\* What started the attempt in flight, for the record in lastOp.
AttemptOrigin ==
    [state |-> upstream.state, after |-> lastOp.op,
     from |-> IF lastOp.op = "manualReconnect" THEN lastOp.data.from ELSE "none",
     counter |-> reconnectAttempts]

\* Variant of onConnect: the handler does not reset the counter.
onConnectKeepsCounter ==
    /\ AttemptInFlight
    /\ isConnected' = TRUE
    /\ reconnectAttempts' = reconnectAttempts
    /\ upstreamEmits' = subscribeToSymbols(upstream.state # "none", isConnected',
                                           realtimeSymbols)
    /\ subscribed' = {upstreamEmits'[i].channel : i \in 1..Len(upstreamEmits')}
    /\ UNCHANGED realtimeSymbols
    /\ upstream' = [upstream EXCEPT !.state = "open", !.attempts = 0]
    /\ lastOp' = FeedOp("upstreamConnect", "", AttemptOrigin)
    /\ FeedFrame

\* socket.on('connect'): isConnected, reconnectAttempts = 0, then
\* subscribeToSymbols() emits on the three channels.
onConnect ==
    /\ AttemptInFlight
    /\ isConnected' = TRUE
    /\ reconnectAttempts' = 0
    /\ upstreamEmits' = subscribeToSymbols(upstream.state # "none", isConnected',
                                           realtimeSymbols)
    /\ subscribed' = {upstreamEmits'[i].channel : i \in 1..Len(upstreamEmits')}
    /\ UNCHANGED realtimeSymbols
    /\ upstream' = [upstream EXCEPT !.state = "open", !.attempts = 0]
    /\ lastOp' = FeedOp("upstreamConnect", "", AttemptOrigin)
    /\ FeedFrame

\* socket.on('connect_error'): the counter is incremented; the Manager then
\* schedules a reconnection attempt or gives up.  After a first attempt
\* (open() without callback) maybeReconnectOnOpen calls reconnect() with a
\* backoff counter of 0.
onConnectError ==
    /\ AttemptInFlight
    /\ reconnectAttempts' = reconnectAttempts + 1
    /\ upstream' = Reconnect(upstream)
    /\ lastOp' = FeedOp("connect_error", "", AttemptOrigin)
    /\ upstreamEmits' = << >>
    /\ UNCHANGED <<isConnected, subscribed, realtimeSymbols>>
    /\ FeedFrame

\* The reconnection timer fires: the Manager opens a new attempt.
ReconnectTimer ==
    /\ upstream.state = "backoff"
    /\ upstream' = [upstream EXCEPT !.state = "reopening"]
    /\ lastOp' = FeedOp("reconnect_attempt", "", NoPayload)
    /\ upstreamEmits' = << >>
    /\ UNCHANGED <<isConnected, reconnectAttempts, subscribed, realtimeSymbols>>
    /\ FeedFrame

\* Variant of onDisconnect: the handler empties the stock data of the cache.
onDisconnectClearsCache ==
    /\ upstream.state = "open"
    /\ isConnected' = FALSE
    /\ subscribed' = {}
    /\ upstream' = Reconnect([upstream EXCEPT !.attempts = 0])
    /\ lastOp' = FeedOp("upstreamDisconnect", "", NoPayload)
    /\ upstreamEmits' = << >>
    /\ stockData' = EmptyMap
    /\ NoFanOut
    /\ UNCHANGED <<reconnectAttempts, realtimeSymbols, hubVars, marketIndexes, preIndexes,
                   roundTrip, initialData, updateLog, loadVars, orderVars, serverVars, proxyVars>>

\* socket.on('disconnect') for a lost transport: isConnected = false; the
\* Manager resets its backoff and starts reconnecting.
onDisconnect ==
    /\ upstream.state = "open"
    /\ isConnected' = FALSE
    /\ subscribed' = {}
    /\ upstream' = Reconnect([upstream EXCEPT !.attempts = 0])
    /\ lastOp' = FeedOp("upstreamDisconnect", "", NoPayload)
    /\ upstreamEmits' = << >>
    /\ UNCHANGED <<reconnectAttempts, realtimeSymbols>>
    /\ FeedFrame

\* socket.on('disconnect') with reason 'io server disconnect': the socket is
\* destroyed and the Manager does not reconnect.
onServerDisconnect ==
    /\ upstream.state = "open"
    /\ isConnected' = FALSE
    /\ subscribed' = {}
    /\ upstream' = [upstream EXCEPT !.state = "closed", !.attempts = 0]
    /\ lastOp' = FeedOp("serverDisconnect", "", NoPayload)
    /\ upstreamEmits' = << >>
    /\ UNCHANGED <<reconnectAttempts, realtimeSymbols>>
    /\ FeedFrame

\* Variant of ManualReconnect: the socket is disconnected and not connected
\* again.
ManualReconnectNoConnect(manager) ==
    [manager EXCEPT !.state = "closed", !.attempts = 0, !.manual = manager.manual + 1]

\* realtimeManager.socket.disconnect(); realtimeManager.socket.connect();
\* the Manager closes whatever it was doing and opens a first attempt.
ManualReconnect(manager) ==
    [manager EXCEPT !.state = "opening", !.attempts = 0, !.manual = manager.manual + 1]

\* POST /admin/realtime/reconnect.  socket.disconnect() emits 'disconnect'
\* when the socket was connected, so isConnected becomes false.
manualReconnect ==
    /\ upstream.state # "none"
    /\ upstream.manual < MaxManualReconnects
    /\ upstream' = ManualReconnect(upstream)
    /\ isConnected' = FALSE
    /\ subscribed' = {}
    /\ lastOp' = FeedOp("manualReconnect", "",
                        [from |-> upstream.state, attempts |-> reconnectAttempts])
    /\ upstreamEmits' = << >>
    /\ UNCHANGED <<reconnectAttempts, realtimeSymbols>>
    /\ FeedFrame

\* An event of the upstream socket whose name has no listener (and no entry
\* in messageTypes for handleMessage): nothing runs.
UnlistenedEvent(type, wire) ==
    /\ type \notin FeedTypes
    /\ lastOp' = FeedOp("message", type, wire)
    /\ NoFanOut
    /\ UNCHANGED <<hubVars, cacheVars>>

\* ---------------------------------------------------------------- cleanup
\* The Manager of a socket that cleanup() left without calling disconnect():
\* it goes on from the state it was in, with no listener on the socket.
OrphanOf(state) ==
    CASE state = "opening" -> "orphan opening"
      [] state = "reopening" -> "orphan reopening"
      [] state = "backoff" -> "orphan backoff"
      [] state = "open" -> "orphan open"
      [] state = "failed" -> "orphan failed"
      [] OTHER -> "orphan closed"

\* RealtimeManager.cleanup(): socket.removeAllListeners(), socket.disconnect()
\* only if isConnected, socket = null, isConnected = false.  disconnect()
\* destroys the socket, and the Manager, left without a socket, closes its
\* transport and stops reconnecting.
cleanup ==
    /\ upstream.state \in {"opening", "reopening", "backoff", "open", "failed", "closed"}
    /\ upstream' = IF isConnected
                   THEN [upstream EXCEPT !.state = "destroyed", !.attempts = 0]
                   ELSE [upstream EXCEPT !.state = OrphanOf(upstream.state)]
    /\ isConnected' = FALSE
    /\ subscribed' = {}
    /\ lastOp' = FeedOp("cleanup", "", [from |-> upstream.state, connected |-> isConnected])
    /\ upstreamEmits' = << >>
    /\ UNCHANGED <<reconnectAttempts, realtimeSymbols>>
    /\ FeedFrame

\* What the Manager does on an event of its own when no listener is left.
OrphanStep(manager, event) ==
    IF event = "connect" THEN [manager EXCEPT !.state = "orphan open", !.attempts = 0]
    ELSE IF event = "reconnect_attempt" THEN [manager EXCEPT !.state = "orphan reopening"]
    ELSE LET next == IF event = "connect_error" THEN Reconnect(manager)
                     ELSE Reconnect([manager EXCEPT !.attempts = 0])
         IN  [next EXCEPT !.state = OrphanOf(next.state)]

OrphanEvents ==
    IF upstream.state \in {"orphan opening", "orphan reopening"}
    THEN {"connect", "connect_error"}
    ELSE IF upstream.state = "orphan backoff" THEN {"reconnect_attempt"}
    ELSE IF upstream.state = "orphan open" THEN {"close"}
    ELSE {}

\* An attempt of the orphaned Manager succeeds or fails, its reconnection
\* timer fires, or its connection is lost: no handler of RealtimeManager runs.
orphanManager ==
    /\ \E event \in OrphanEvents :
           /\ upstream' = OrphanStep(upstream, event)
           /\ lastOp' = FeedOp("orphan", event, NoPayload)
    /\ upstreamEmits' = << >>
    /\ UNCHANGED <<isConnected, reconnectAttempts, subscribed, realtimeSymbols>>
    /\ FeedFrame

\* An event reaches the socket of the orphaned Manager: it has no listener.
orphanMessage(type, wire) ==
    /\ upstream.state = "orphan open"
    /\ lastOp' = FeedOp("orphanMessage", type, wire)
    /\ NoFanOut
    /\ UNCHANGED <<hubVars, cacheVars>>

\* --------------------------------------------------------------- bulk load
\* DataInitializer.initialize() runs from one await to the next; refresh.pc
\* names the request it is parked at, refresh.group the exchange (a position
\* in exchanges) of a loadExchangeData request.
LoadFrame ==
    /\ NoFanOut
    /\ UNCHANGED <<hubVars, preIndexes, roundTrip, initialData, updateLog, feedVars, orderVars,
                   serverVars, proxyVars>>

ParkedAt(pc) == refresh.outcome = "running" /\ refresh.pc = pc

\* initialize() up to its first await: cacheManager.initialize(), then the
\* getAll request of loadAllSymbols is sent.
BeginInitialize ==
    /\ isInitialized' = TRUE
    /\ refresh' = [pc |-> "loadAllSymbols", group |-> 0, run |-> refresh.run + 1,
                   outcome |-> "running", at |-> "idle"]
    /\ preRefresh' = Snapshot(stockData, symbolsByGroup)
    /\ UNCHANGED <<stockData, marketIndexes, allSymbols, symbolsByGroup, companies>>
    /\ LoadFrame

\* startServer(): await dataInitializer.initialize()
startServer ==
    /\ refresh.pc = "idle" /\ refresh.run = 0
    /\ BeginInitialize
    /\ lastOp' = FeedOp("startServer", "", NoPayload)

\* A cron task fires: await this.refreshData(timeLabel).  The two tasks are
\* three hours apart; a run begins when the previous one has ended.
refreshData ==
    /\ refresh.pc = "idle" /\ refresh.run >= 1 /\ refresh.run < MaxRefreshes
    /\ BeginInitialize
    /\ lastOp' = FeedOp("refreshData", "", NoPayload)

\* Variant of RequestFails: the failure of a scheduled refresh ends the
\* process as well.
RequestFailsAlwaysExits ==
    /\ refresh.outcome = "running"
    /\ refresh.pc \in {"loadAllSymbols", "symbols", "stockData", "loadMarketIndexes"}
    /\ refresh' = [refresh EXCEPT !.pc = "exited", !.outcome = "failed", !.at = refresh.pc]
    /\ lastOp' = FeedOp("initializeFailed", "", NoPayload)
    /\ UNCHANGED <<stockData, marketIndexes, allSymbols, symbolsByGroup, companies,
                   isInitialized, preRefresh>>
    /\ LoadFrame

\* The awaited request rejects, or answers with a status other than 200:
\* initialize() rethrows.  startServer() ends the process, refreshData()
\* logs the error and returns.
RequestFails ==
    /\ refresh.outcome = "running"
    /\ refresh.pc \in {"loadAllSymbols", "symbols", "stockData", "loadMarketIndexes"}
    /\ refresh' = [refresh EXCEPT !.pc = IF refresh.run = 1 THEN "exited" ELSE "idle",
                                  !.outcome = "failed", !.at = refresh.pc]
    /\ lastOp' = FeedOp("initializeFailed", "", NoPayload)
    /\ UNCHANGED <<stockData, marketIndexes, allSymbols, symbolsByGroup, companies,
                   isInitialized, preRefresh>>
    /\ LoadFrame

\* loadAllSymbols after its await, for the response the getAll request got;
\* then the request of loadCompanies is sent.
loadAllSymbolsOf(response) ==
    /\ ParkedAt("loadAllSymbols")
    /\ allSymbols' = setSymbols(SelectSeq(response, IsListedStock))
    /\ refresh' = [refresh EXCEPT !.pc = "loadCompanies"]
    /\ lastOp' = FeedOp("loadAllSymbols", "", NoPayload)
    /\ UNCHANGED <<stockData, marketIndexes, symbolsByGroup, companies, isInitialized,
                   preRefresh>>
    /\ LoadFrame

loadAllSymbols == loadAllSymbolsOf(AllSymbolsResponse(refresh.run))

\* The getAll request of a scheduled refresh is answered with status 200 and
\* a list without a listed stock: an empty list, or delisted entries only.
EmptySymbolLists == { << >>, << SymbolInfo("ROS", "DELISTED", "STOCK") >> }

loadNoSymbols ==
    /\ refresh.run > 1
    /\ \E response \in EmptySymbolLists : loadAllSymbolsOf(response)

\* loadCompanies after its await, or the catch around it; then the symbols
\* request of loadExchangeData(exchanges[0]) is sent.
loadCompanies(ok) ==
    /\ ParkedAt("loadCompanies")
    /\ companies' = IF ok THEN CompaniesResponse(refresh.run) ELSE << >>
    /\ refresh' = [refresh EXCEPT !.pc = "symbols", !.group = 1]
    /\ lastOp' = FeedOp("loadCompanies", "", NoPayload)
    /\ UNCHANGED <<stockData, marketIndexes, allSymbols, symbolsByGroup, isInitialized,
                   preRefresh>>
    /\ LoadFrame

\* loadExchangeData after its first await: setSymbolsByGroup, then the stock
\* data request is sent.
loadExchangeSymbols ==
    /\ ParkedAt("symbols")
    /\ LET exchange == exchanges[refresh.group]
           symbolsResponse == GroupSymbolsResponse(exchange, refresh.run)
           symbolList == [i \in 1..Len(symbolsResponse) |-> symbolsResponse[i].symbol]
       IN  symbolsByGroup' = setSymbolsByGroup(symbolsByGroup, exchange, symbolList)
    /\ refresh' = [refresh EXCEPT !.pc = "stockData"]
    /\ lastOp' = FeedOp("setSymbolsByGroup", "", NoPayload)
    /\ UNCHANGED <<stockData, marketIndexes, allSymbols, companies, isInitialized, preRefresh>>
    /\ LoadFrame

\* loadExchangeData after its second await: setMultipleStockData, then the
\* loop sends the symbols request of the next exchange, or loadMarketIndexes
\* sends its request.
loadExchangeStockData ==
    /\ ParkedAt("stockData")
    /\ LET exchange == exchanges[refresh.group]
           stockDataMap == StockDataMapOf(GroupDataResponse(exchange, refresh.run))
       IN  /\ stockData' = setMultipleStockData(stockData, stockDataMap)
           /\ lastOp' = FeedOp("setMultipleStockData", "", stockDataMap)
    /\ refresh' = IF refresh.group < Len(exchanges)
                  THEN [refresh EXCEPT !.pc = "symbols", !.group = refresh.group + 1]
                  ELSE [refresh EXCEPT !.pc = "loadMarketIndexes", !.group = 0]
    /\ UNCHANGED <<marketIndexes, allSymbols, symbolsByGroup, companies, isInitialized,
                   preRefresh>>
    /\ LoadFrame

\* loadMarketIndexes after its await; initialize() returns.
loadMarketIndexes ==
    /\ ParkedAt("loadMarketIndexes")
    /\ marketIndexes' = setMarketIndexes(marketIndexes,
                                         IndexesMapOf(MarketIndexesResponse(refresh.run)))
    /\ refresh' = [refresh EXCEPT !.pc = "idle", !.outcome = "completed"]
    /\ lastOp' = FeedOp("loadMarketIndexes", "", NoPayload)
    /\ UNCHANGED <<stockData, allSymbols, symbolsByGroup, companies, isInitialized, preRefresh>>
    /\ LoadFrame

\* server.listen() is called once the startup load has returned.
Listening ==
    /\ refresh.run >= 1
    /\ refresh.pc # "exited"
    /\ ~(refresh.run = 1 /\ refresh.outcome = "running")

GroupRead(group, ready, result) == [group |-> group, ready |-> ready, result |-> result]

\* POST /price/v3/symbols/w/compress/getList with a group: 503 unless the
\* cache is ready, else cacheManager.getStockDataByGroup(group).
ReadGroup(group) ==
    /\ Listening
    /\ lastOp' = FeedOp("getStockDataByGroup", "",
                        IF isReady(isInitialized, allSymbols, stockData)
                        THEN GroupRead(group, TRUE,
                                       getStockDataByGroup(stockData, symbolsByGroup, group))
                        ELSE GroupRead(group, FALSE, EmptyMap))
    /\ UNCHANGED <<cacheVars, loadVars>>
    /\ LoadFrame

\* Group names of a request that are no key of symbolsByGroup: Map keys are
\* compared as they are, without case folding.
UnknownGroups == {"hose", "DERIVATIVES"}

\* GET /price/symbols/getByGroup and POST /price/v3/symbols/w/compress/getList
\* with the same group name: cacheManager.getSymbolsByGroup(group) and
\* cacheManager.getStockDataByGroup(group) behind the isReady() check.
ReadGroupByName(group) ==
    /\ Listening
    /\ lastOp' = FeedOp("readGroupByName", "",
                        [group |-> group,
                         ready |-> isReady(isInitialized, allSymbols, stockData),
                         symbols |-> getSymbolsByGroup(symbolsByGroup, group),
                         result |-> getStockDataByGroup(stockData, symbolsByGroup, group)])
    /\ UNCHANGED <<cacheVars, loadVars>>
    /\ LoadFrame

\* -------------------------------------------------------------- HTTP proxy
\* A URL or a query string is the sequence of its tokens: the delimiters
\* ":", "/", "?", "#", "=", "&", their percent-escapes, and runs of
\* characters that are neither.
UrlDelimiters == {":", "/", "?", "#", "=", "&"}

EscapeOf(token) ==
    CASE token = ":" -> "%3A"
      [] token = "/" -> "%2F"
      [] token = "?" -> "%3F"
      [] token = "#" -> "%23"
      [] token = "=" -> "%3D"
      [] token = "&" -> "%26"
      [] OTHER -> token

UnescapeOf(token) ==
    CASE token = "%3A" -> ":"
      [] token = "%2F" -> "/"
      [] token = "%3F" -> "?"
      [] token = "%23" -> "#"
      [] token = "%3D" -> "="
      [] token = "%26" -> "&"
      [] OTHER -> token

\* encodeURIComponent(targetUrl) of a client that builds the proxy URL
encodeURIComponent(text) == [i \in 1..Len(text) |-> EscapeOf(text[i])]

\* The decoding the query parser of express applies to a value.
decodeURIComponent(text) == [i \in 1..Len(text) |-> UnescapeOf(text[i])]

\* text.indexOf(delim) from position i, 0 when there is none.
RECURSIVE IndexOf(_, _, _)
IndexOf(text, delim, i) ==
    IF i > Len(text) THEN 0
    ELSE IF text[i] = delim THEN i ELSE IndexOf(text, delim, i + 1)

\* text.split(delim)
RECURSIVE Split(_, _)
Split(text, delim) ==
    LET i == IndexOf(text, delim, 1)
    IN  IF i = 0 THEN <<text>>
        ELSE <<SubSeq(text, 1, i - 1)>> \o Split(SubSeq(text, i + 1, Len(text)), delim)

\* pieces.join(delim)
RECURSIVE Join(_, _)
Join(pieces, delim) ==
    IF pieces = << >> THEN << >>
    ELSE IF Len(pieces) = 1 THEN pieces[1]
    ELSE pieces[1] \o <<delim>> \o Join(Tail(pieces), delim)

\* req.query[name] for the query string of the request: the pairs are split
\* at "&", each at its first "=", and the value is decoded; << >> stands for
\* undefined.
QueryParameter(querystring, name) ==
    LET parts == Split(querystring, "&")
        hits == SelectSeq(parts, LAMBDA part :
                    /\ IndexOf(part, "=", 1) > 1
                    /\ SubSeq(part, 1, IndexOf(part, "=", 1) - 1) = <<name>>)
    IN  IF hits = << >> THEN << >>
        ELSE decodeURIComponent(SubSeq(hits[1], IndexOf(hits[1], "=", 1) + 1, Len(hits[1])))

\* "/" + segment for each segment; "" is the empty segment.
RECURSIVE PathText(_)
PathText(segments) ==
    IF segments = << >> THEN << >>
    ELSE <<"/">> \o (IF Head(segments) = "" THEN << >> ELSE <<Head(segments)>>)
             \o PathText(Tail(segments))

\* The path of new URL(): "." is dropped and ".." removes the segment before
\* it; as last segment either leaves a trailing slash.
RECURSIVE RemoveDotSegments(_, _, _)
RemoveDotSegments(out, segments, i) ==
    IF i > Len(segments) THEN out
    ELSE LET last == i = Len(segments)
             shortened == IF out = << >> THEN out ELSE SubSeq(out, 1, Len(out) - 1)
             next == IF segments[i] = ".."
                     THEN IF last THEN Append(shortened, "") ELSE shortened
                     ELSE IF segments[i] = "."
                     THEN IF last THEN Append(out, "") ELSE out
                     ELSE Append(out, segments[i])
         IN  RemoveDotSegments(next, segments, i + 1)

\* The segments of a path text that is empty or starts with "/".
SegmentsOf(pathText) ==
    IF pathText = << >> THEN << >>
    ELSE LET pieces == Split(Tail(pathText), "/")
         IN  [i \in 1..Len(pieces) |-> IF pieces[i] = << >> THEN "" ELSE pieces[i][1]]

\* new URL(targetUrl) accepts the text.
IsUrl(text) ==
    /\ Len(text) >= 5
    /\ text[1] \in {"http", "https"}
    /\ text[2] = ":" /\ text[3] = "/" /\ text[4] = "/"
    /\ text[5] \notin UrlDelimiters

\* new URL(targetUrl): protocol, host, pathname and search.  The fragment is
\* no part of either; an empty path has pathname "/", an empty query has an
\* empty search.
ParseUrl(text) ==
    LET rest == Split(SubSeq(text, 6, Len(text)), "#")[1]
        q == IndexOf(rest, "?", 1)
        pathText == IF q = 0 THEN rest ELSE SubSeq(rest, 1, q - 1)
        queryText == IF q = 0 THEN << >> ELSE SubSeq(rest, q + 1, Len(rest))
        segments == RemoveDotSegments(<< >>, SegmentsOf(pathText), 1)
    IN  [protocol |-> text[1],
         host |-> text[5],
         pathname |-> PathText(IF segments = << >> THEN <<"">> ELSE segments),
         search |-> IF queryText = << >> THEN << >> ELSE <<"?">> \o queryText]

\* pathRewrite: `${parsedTarget.pathname}${parsedTarget.search}`
pathRewrite(targetUrl) == ParseUrl(targetUrl).pathname \o ParseUrl(targetUrl).search

\* .replace(/\/+/g, '/')
RECURSIVE CollapseSlashes(_, _, _)
CollapseSlashes(out, text, i) ==
    IF i > Len(text) THEN out
    ELSE CollapseSlashes(IF text[i] = "/" /\ out # << >> /\ out[Len(out)] = "/"
                         THEN out ELSE Append(out, text[i]),
                         text, i + 1)

\* The path of the outgoing request, as the proxy library joins the path of
\* the target option with the rewritten request url: the part before the
\* first "?" is joined with "/" and runs of "/" become one "/".
urlJoin(targetPath, outgoingPath) ==
    LET lastSegs == Split(outgoingPath, "?")
        args == SelectSeq(<<targetPath, lastSegs[1]>>, LAMBDA arg : arg # << >>)
    IN  Join(<<CollapseSlashes(<< >>, Join(args, "/"), 1)>> \o Tail(lastSegs), "?")

\* createProxyOptions(targetUrl).target
ProxyTarget(targetUrl) ==
    <<ParseUrl(targetUrl).protocol, ":", "/", "/", ParseUrl(targetUrl).host>>

NotForwarded(error) == [status |-> error, host |-> "", path |-> << >>]

\* app.use("/proxy", ...): 400 without target or with one new URL() rejects;
\* else the middleware created from createProxyOptions(targetUrl) forwards
\* the request to the target with the rewritten path.
proxyHandler(querystring) ==
    LET targetUrl == QueryParameter(querystring, "target")
    IN  IF targetUrl = << >> THEN NotForwarded("missing")
        ELSE IF ~IsUrl(targetUrl) THEN NotForwarded("invalid")
        ELSE [status |-> "forwarded",
              host |-> ParseUrl(ProxyTarget(targetUrl)).host,
              path |-> urlJoin(ParseUrl(ProxyTarget(targetUrl)).pathname,
                               pathRewrite(targetUrl))]

\* A target URL: host, path segments and query pairs ("none": no "?").
TargetPaths ==
    { << >>, <<"get">>, <<"get", "">>, <<"a", "b">>, <<"a", "", "b">>,
      <<"a", "..", "b">>, <<"a", ".">> }

TargetQueries ==
    { <<"none">>, << >>, << <<"param1", "value1">> >>,
      << <<"param1", "value1">>, <<"param2", "value2">> >> }

Targets == [host : {"httpbin.org", "api.example.com"}, path : TargetPaths, query : TargetQueries]

RECURSIVE PairsText(_)
PairsText(pairs) ==
    IF pairs = << >> THEN << >>
    ELSE <<pairs[1][1], "=", pairs[1][2]>>
             \o (IF Len(pairs) = 1 THEN << >> ELSE <<"&">> \o PairsText(Tail(pairs)))

QueryText(query) == IF query = <<"none">> THEN << >> ELSE PairsText(query)

\* The target URL as the client writes it.
UrlText(target) ==
    <<"https", ":", "/", "/", target.host>> \o PathText(target.path)
        \o (IF target.query = <<"none">> THEN << >> ELSE <<"?">> \o QueryText(target.query))

\* The query string of GET /proxy?target=<url>[&extra=1]; the test client
\* encodes the target, the example of the root route shows it as it is.
ProxyQueryString(target, encoded, extra) ==
    <<"target", "=">>
        \o (IF encoded THEN encodeURIComponent(UrlText(target)) ELSE UrlText(target))
        \o (IF extra THEN <<"&", "extra", "=", "1">> ELSE << >>)

proxyRequest(target, encoded, extra) ==
    /\ lastOp' = FeedOp("proxy", "",
                        [target |-> target,
                         query |-> ProxyQueryString(target, encoded, extra),
                         received |-> QueryParameter(ProxyQueryString(target, encoded, extra),
                                                     "target"),
                         forwarded |-> proxyHandler(ProxyQueryString(target, encoded, extra))])
    /\ NoFanOut
    /\ UNCHANGED <<hubVars, cacheVars>>

\* ---------------------------------------------------------- specifications
\* The bulk loader, the upstream connection and the delivery history take no
\* part in a step.
\* ------------------------------------------------------- WebSocket tunnel
TunnelFrame ==
    /\ NoFanOut
    /\ UNCHANGED <<hubVars, cacheVars, preIndexes, roundTrip, initialData, updateLog,
                   loadVars, feedVars, orderVars, serverVars>>

TunnelOp(op, i, event) == FeedOp(op, event, [tunnel |-> i])

\* What the target parameter of an upgrade request can be: a WebSocket URL,
\* absent, or a text new WebSocket() throws on.
TargetParameters == {"url", "missing", "invalid"}

\* wss.on("connection"): clientWs is OPEN.  Without a target parameter the
\* client is closed with 1008 and nothing else happens; otherwise the target
\* WebSocket is constructed (CONNECTING) and the handlers are registered, or
\* the constructor throws and the client is closed with 1011.  Tunnels are
\* taken in order.
wssConnection(i, target) ==
    /\ tunnels[i] = NoTunnel
    /\ \A j \in Tunnels : j < i => tunnels[j] # NoTunnel
    /\ tunnels' = [tunnels EXCEPT ![i] =
                      IF target = "url"
                      THEN [client |-> "OPEN", target |-> "CONNECTING"]
                      ELSE [client |-> "CLOSING", target |-> "NONE"]]
    /\ lastOp' = TunnelOp("wssConnection", i, target)
    /\ TunnelFrame

TargetEvents == {"open", "close", "error"}

\* targetWs.on("open" | "close" | "error").  "open" ends the handshake and
\* the handler only logs.  "error" is a failed handshake or a failure of an
\* open connection and leaves the target CLOSING, with its "close" event
\* still to come; "close" leaves it CLOSED.  The "close" and "error"
\* handlers close the client if the client is OPEN.
targetEvent(i, event) ==
    /\ CASE event = "open" -> tunnels[i].target = "CONNECTING"
         [] event = "error" -> tunnels[i].target \in {"CONNECTING", "OPEN"}
         [] event = "close" -> tunnels[i].target \in {"OPEN", "CLOSING"}
    /\ tunnels' = [tunnels EXCEPT ![i] =
                      [target |-> CASE event = "open" -> "OPEN"
                                    [] event = "error" -> "CLOSING"
                                    [] event = "close" -> "CLOSED",
                       client |-> IF event # "open" /\ @.client = "OPEN"
                                  THEN "CLOSING" ELSE @.client]]
    /\ lastOp' = TunnelOp("targetEvent", i, event)
    /\ TunnelFrame

ClientEvents == {"close", "error"}

\* clientWs.on("close" | "error"): "error" leaves the client CLOSING, "close"
\* leaves it CLOSED (after the client went away or after a close() of the
\* proxy completed).  Both handlers call targetWs.close() only if
\* targetWs.readyState is OPEN.  Without a target no handler is registered.
clientEvent(i, event) ==
    /\ CASE event = "error" -> tunnels[i].client = "OPEN"
         [] event = "close" -> tunnels[i].client \in {"OPEN", "CLOSING"}
    /\ tunnels' = [tunnels EXCEPT ![i] =
                      [client |-> IF event = "error" THEN "CLOSING" ELSE "CLOSED",
                       target |-> IF @.target = "OPEN" THEN "CLOSING" ELSE @.target]]
    /\ lastOp' = TunnelOp("clientEvent", i, event)
    /\ TunnelFrame

\* clientWs.on("message") and targetWs.on("message"): the data is sent on
\* if the other side is OPEN and dropped otherwise.  A WebSocket emits
\* "message" only after its handshake and before its "close" event.
tunnelMessage(i, from) ==
    /\ tunnels[i][from] \in {"OPEN", "CLOSING"}
    /\ lastOp' = FeedOp("tunnelMessage", from,
                        [tunnel |-> i,
                         sent |-> tunnels[i][IF from = "client" THEN "target"
                                             ELSE "client"] = "OPEN"])
    /\ UNCHANGED tunnels
    /\ TunnelFrame

Elsewhere == UNCHANGED <<loadVars, feedVars, orderVars, serverVars, proxyVars>>

NoHistory == UNCHANGED <<preIndexes, roundTrip, initialData, updateLog>> /\ Elsewhere

\* lastOp' is an unsubscribe that directly follows a subscribe of the same
\* client with the same payload.
UndoesLastSubscribe ==
    /\ lastOp.op = "subscribe"
    /\ lastOp'.op = "unsubscribe"
    /\ lastOp'.client = lastOp.client
    /\ lastOp'.data = lastOp.data

HubHistory ==
    /\ preIndexes' = CurIndexes
    /\ roundTrip' = IF UndoesLastSubscribe
                    THEN [valid |-> TRUE, cs |-> preIndexes.cs, ss |-> preIndexes.ss]
                    ELSE NoRoundTrip
    /\ UNCHANGED <<initialData, updateLog>>
    /\ Elsewhere

\* The whole pipeline: client connections and the upstream feed.
Connect == \E c \in Clients : ClientConnect(c) /\ NoHistory

Close == \E c \in Clients : TransportClose(c) /\ NoHistory

Subscription ==
    \E c \in Clients, t \in SubEventTypes, d \in FeedPayloads :
        handleSubscription(c, t, d) /\ NoHistory

Unsubscription ==
    \E c \in Clients, t \in SubEventTypes, d \in FeedPayloads :
        handleUnsubscription(c, t, d) /\ NoHistory

Disconnection == \E c \in Clients : handleDisconnection(c) /\ NoHistory

Message ==
    \E i \in 1..Len(FeedInputs) :
        \E throwing \in SUBSET OpenSubscribers(FeedInputs[i].wire) :
            handleMessage(FeedInputs[i].type, FeedInputs[i].wire, throwing) /\ NoHistory

Next == Connect \/ Close \/ Subscription \/ Unsubscription \/ Disconnection \/ Message

Spec == Init /\ [][Next]_vars

\* The Hub alone, with every client payload and the index history.
HubConnect == \E c \in Clients : ClientConnect(c) /\ HubHistory

HubClose == \E c \in Clients : TransportClose(c) /\ HubHistory

HubSubscription ==
    \E c \in Clients, t \in SubEventTypes, d \in Payloads :
        handleSubscription(c, t, d) /\ HubHistory

HubUnsubscription ==
    \E c \in Clients, t \in SubEventTypes, d \in Payloads :
        handleUnsubscription(c, t, d) /\ HubHistory

HubDisconnection == \E c \in Clients : handleDisconnection(c) /\ HubHistory

HubNext == HubConnect \/ HubClose \/ HubSubscription \/ HubUnsubscription \/ HubDisconnection

SpecHub == Init /\ [][HubNext]_vars

\* The cache alone: sequences of upstream messages over an empty or a
\* bulk-loaded store, with the log of the partial updates applied.
CacheInputs ==
    << FeedInput("match-price", Wire(TRUE, MatchPriceMessage("VIC", 110, 1046))),
       FeedInput("match-price", Wire(TRUE, MatchPriceMessage("VIC", 95, 0))),
       FeedInput("match-price", Wire(TRUE, MatchPriceMessage("VHM", 105, 1045))),
       FeedInput("bid-ask", Wire(TRUE, BidAskMessage("VIC", <<Level(99, 5)>>,
                                                     <<Level(101, 6), Level(102, 7)>>))),
       FeedInput("bid-ask", Wire(TRUE, BidAskMessage("VIC", << >>, <<Level(103, 8)>>))),
       FeedInput("bid-ask", Wire(TRUE, BidAskMessage("VHM", <<Level(98, 4)>>, << >>))),
       FeedInput("index", Wire(TRUE, IndexMessage("VN30", 1500))),
       FeedInput("index", Wire(TRUE, IndexMessage("HNX30", 300))),
       FeedInput("match-price", Wire(FALSE, [symbol |-> ""])),
       FeedInput("bid-ask", Wire(TRUE, BidAskMessage("", << >>, << >>))) >>

InitialStockData ==
    { EmptyMap,
      setStockData(EmptyMap, "VIC", transformCompressedToStockData(CompressedItem("VIC"))) }

InitCache == \E sd \in InitialStockData : InitWith(sd)

LogOf(symbol) == IF MapHas(updateLog, symbol) THEN updateLog[symbol] ELSE << >>

RECURSIVE LoggedUpdates(_)
LoggedUpdates(symbols) ==
    IF symbols = {} THEN 0
    ELSE LET s == CHOOSE x \in symbols : TRUE
         IN  Len(updateLog[s]) + LoggedUpdates(symbols \ {s})

CacheHistory(type, wire) ==
    /\ LoggedUpdates(DOMAIN updateLog) < MaxUpdates
    /\ updateLog' = IF ~MessageDropped(wire) /\ IsStockUpdate(type)
                    THEN MapSet(updateLog, wire.message.symbol,
                                Append(LogOf(wire.message.symbol),
                                       StockUpdateOf(wire.message, type)))
                    ELSE updateLog
    /\ UNCHANGED <<preIndexes, roundTrip, initialData>>
    /\ Elsewhere

CacheMessage ==
    \E i \in 1..Len(CacheInputs) :
        handleMessage(CacheInputs[i].type, CacheInputs[i].wire, {})
            /\ CacheHistory(CacheInputs[i].type, CacheInputs[i].wire)

\* Symbol lists a reader asks for.
ReadLists == { <<"VIC">>, <<"VIC", "VHM">> }

ReadResult(symbols, result) == [symbols |-> symbols, result |-> result]

\* A reader calls cacheManager.getStockDataBySymbols(symbols).
ReadStockData(symbols) ==
    /\ lastOp' = FeedOp("getStockDataBySymbols", "",
                        ReadResult(symbols, getStockDataBySymbols(stockData, symbols)))
    /\ NoFanOut
    /\ UNCHANGED <<hubVars, cacheVars>>

CacheRead == \E symbols \in ReadLists : ReadStockData(symbols) /\ NoHistory

CacheNext == CacheMessage \/ CacheRead

SpecCache == InitCache /\ [][CacheNext]_vars

\* Bulk loads into the store, interleaved with upstream messages.
\* The spec's example of a reduced snapshot: reference and ceiling only.
ReducedRecord == [tc |-> 100, tran |-> 110]

BulkPayloads ==
    { EmptyMap,
      setStockData(EmptyMap, "VIC", transformCompressedToStockData(CompressedItem("VIC"))),
      setStockData(setStockData(EmptyMap, "VIC",
                                transformCompressedToStockData(CompressedItem("VIC"))),
                   "VHM", transformCompressedToStockData(CompressedItem("VHM"))),
      setStockData(EmptyMap, "VIC", ReducedRecord) }

\* cacheManager.setMultipleStockData(stockDataMap)
BulkLoad(stockDataMap) ==
    /\ stockData' = setMultipleStockData(stockData, stockDataMap)
    /\ lastOp' = FeedOp("setMultipleStockData", "", stockDataMap)
    /\ preRefresh' = Snapshot(stockData, symbolsByGroup)
    /\ NoFanOut
    /\ UNCHANGED <<hubVars, marketIndexes, preIndexes, roundTrip, initialData, updateLog,
                   allSymbols, symbolsByGroup, companies, isInitialized, refresh,
                   feedVars, orderVars, serverVars, proxyVars>>

BulkLoads == \E stockDataMap \in BulkPayloads : BulkLoad(stockDataMap)

BulkInputs ==
    << FeedInput("match-price", Wire(TRUE, MatchPriceMessage("VIC", 110, 1046))),
       FeedInput("bid-ask", Wire(TRUE, BidAskMessage("VIC", <<Level(99, 5)>>, << >>))),
       FeedInput("bid-ask", Wire(TRUE, BidAskMessage("VHM", <<Level(98, 4)>>, << >>))) >>

BulkMessage ==
    \E i \in 1..Len(BulkInputs) :
        handleMessage(BulkInputs[i].type, BulkInputs[i].wire, {}) /\ NoHistory

BulkNext == BulkLoads \/ BulkMessage

SpecBulk == Init /\ [][BulkNext]_vars

\* The startup load and the scheduled refreshes, with readers of a group.
LoadCompanies == \E ok \in BOOLEAN : loadCompanies(ok)

GroupReads == \E i \in 1..Len(exchanges) : ReadGroup(exchanges[i])

UnknownGroupReads == \E group \in UnknownGroups : ReadGroupByName(group)

LoadNext ==
    \/ startServer
    \/ refreshData
    \/ RequestFails
    \/ loadAllSymbols
    \/ LoadCompanies
    \/ loadExchangeSymbols
    \/ loadExchangeStockData
    \/ loadMarketIndexes
    \/ GroupReads
    \/ UnknownGroupReads

SpecLoad == Init /\ [][LoadNext]_vars

\* The load with refreshes whose symbol list comes back empty.
ReadyNext == LoadNext \/ loadNoSymbols

SpecReady == Init /\ [][ReadyNext]_vars

\* The upstream connection: attempts, retries, losses and manual reconnects,
\* with the events it delivers while it is open and clients subscribed to VIC.
UpstreamEvents ==
    << FeedInput("match-price", Wire(TRUE, MatchPriceMessage("VIC", 110, 1046))),
       FeedInput("bid-ask", Wire(FALSE, [symbol |-> ""])),
       FeedInput("match-price", Wire(TRUE, MatchPriceMessage("", 110, 1046))),
       FeedInput("globalPrice", Wire(TRUE, [symbol |-> "VIC"])) >>

FeedClientConnect == \E c \in Clients : ClientConnect(c) /\ NoHistory

FeedClientSubscription ==
    \E c \in Clients, t \in SubEventTypes :
        handleSubscription(c, t, [kind |-> "array", symbols |-> <<"VIC">>]) /\ NoHistory

\* The upstream socket dispatches an event while it is connected.
FeedMessage ==
    /\ upstream.state = "open"
    /\ \E i \in 1..Len(UpstreamEvents) :
           /\ \/ /\ UpstreamEvents[i].type \in FeedTypes
                 /\ handleMessage(UpstreamEvents[i].type, UpstreamEvents[i].wire, {})
              \/ UnlistenedEvent(UpstreamEvents[i].type, UpstreamEvents[i].wire)
           /\ NoHistory

FeedNext ==
    \/ realtimeInitialize
    \/ onConnect
    \/ onConnectError
    \/ ReconnectTimer
    \/ onDisconnect
    \/ onServerDisconnect
    \/ manualReconnect
    \/ FeedClientConnect
    \/ FeedClientSubscription
    \/ FeedMessage

SpecFeed == Init /\ [][FeedNext]_vars

\* Shutdown of the feed client: cleanup() in every connection state, and what
\* the Manager and the upstream server do afterwards.
CleanupMessage ==
    \E i \in 1..Len(UpstreamEvents) :
        orphanMessage(UpstreamEvents[i].type, UpstreamEvents[i].wire) /\ NoHistory

CleanupNext ==
    \/ realtimeInitialize
    \/ onConnect
    \/ onConnectError
    \/ ReconnectTimer
    \/ onDisconnect
    \/ onServerDisconnect
    \/ FeedClientConnect
    \/ FeedClientSubscription
    \/ FeedMessage
    \/ cleanup
    \/ orphanManager
    \/ CleanupMessage

SpecCleanup == Init /\ [][CleanupNext]_vars

\* Delivery order: upstream messages in arrival order, and what each client
\* was sent, with clients subscribing to a stock and to an index symbol.
OrderEvents ==
    << FeedInput("bid-ask", Wire(TRUE, BidAskMessage("VIC", <<Level(99, 5)>>, << >>))),
       FeedInput("index", Wire(TRUE, IndexMessage("VNINDEX", 1300))) >>

OrderPayloads == [kind : {"array"}, symbols : {<<"VIC">>, <<"VIC", "VNINDEX">>}]

\* The emits of the log that reached client c, numbered n.
SentTo(log, c, n) ==
    LET sent == SelectSeq(log, LAMBDA e : e.client = c /\ e.outcome = "sent")
    IN  [i \in 1..Len(sent) |->
            [n |-> n, eventType |-> sent[i].eventType, bytes |-> sent[i].bytes]]

OrderHistory(input) ==
    /\ Len(arrived) < MaxEvents
    /\ arrived' = Append(arrived, input)
    /\ inbox' = [c \in Clients |-> inbox[c] \o SentTo(emitLog', c, Len(arrived) + 1)]
    /\ UNCHANGED <<preIndexes, roundTrip, initialData, updateLog, loadVars, feedVars,
                   serverVars, proxyVars>>

OrderConnect == \E c \in Clients : ClientConnect(c) /\ NoHistory

OrderSubscription ==
    \E c \in Clients, d \in OrderPayloads : handleSubscription(c, "match-price", d) /\ NoHistory

OrderDisconnection == \E c \in Clients : handleDisconnection(c) /\ NoHistory

OrderMessage ==
    \E i \in 1..Len(OrderEvents) :
        /\ handleMessage(OrderEvents[i].type, OrderEvents[i].wire, {})
        /\ OrderHistory(OrderEvents[i])

OrderNext ==
    \/ OrderConnect
    \/ OrderSubscription
    \/ OrderDisconnection
    \/ OrderMessage

SpecOrder == Init /\ [][OrderNext]_vars

\* The server: startup, the services started after the first load, the
\* scheduled refreshes, the upstream connection and its events, and one
\* downstream client.
\* startServer() once dataInitializer.initialize() has returned: the
\* broadcast service, RealtimeManager.initialize(allSymbols, callback),
\* scheduler.start() and server.listen().  A throw of initialize() (the
\* protobuf schema does not load) or of start() is caught: the variable is
\* set to null and startServer() goes on.
startServices(realtimeOk, schedulerOk) ==
    /\ refresh.run = 1 /\ refresh.outcome = "completed"
    /\ scheduler = "unset"
    /\ IF realtimeOk
       THEN /\ realtimeManager' = "set"
            /\ realtimeSymbols' = getAllSymbolsForRealtime(symbolsByGroup)
            /\ setupSocket
       ELSE /\ realtimeManager' = "null"
            /\ UNCHANGED feedVars
    /\ scheduler' = IF schedulerOk THEN "started" ELSE "null"
    /\ lastOp' = FeedOp("startServices", "",
                        [realtime |-> realtimeOk, scheduler |-> schedulerOk])
    /\ NoFanOut
    /\ UNCHANGED <<hubVars, cacheVars, preIndexes, roundTrip, initialData, updateLog,
                   loadVars, orderVars, proxyVars>>

StartServices == \E realtimeOk, schedulerOk \in BOOLEAN : startServices(realtimeOk, schedulerOk)

\* A cron task of the started scheduler fires.
ScheduledRefresh == scheduler = "started" /\ refreshData

\* The company list is served by no read of this specification; its request
\* succeeds here (SpecLoad has both outcomes).
ServerCompanies == loadCompanies(TRUE)

ServerEvents ==
    << FeedInput("match-price", Wire(TRUE, MatchPriceMessage("FPT", 110, 1046))),
       FeedInput("bid-ask", Wire(FALSE, [symbol |-> ""])) >>

\* The first downstream socket.
ServerClients == {c \in Clients : \A d \in Clients : c <= d}

ServerClientConnect ==
    /\ scheduler # "unset"
    /\ \E c \in ServerClients : ClientConnect(c) /\ NoHistory

ServerClientSubscription ==
    \E c \in ServerClients :
        handleSubscription(c, "match-price", [kind |-> "array", symbols |-> <<"FPT">>])
            /\ NoHistory

ServerMessage ==
    /\ upstream.state = "open"
    /\ \E i \in 1..Len(ServerEvents) :
           \E throwing \in SUBSET OpenSubscribers(ServerEvents[i].wire) :
               handleMessage(ServerEvents[i].type, ServerEvents[i].wire, throwing) /\ NoHistory

ServerNext ==
    \/ startServer
    \/ RequestFails
    \/ loadAllSymbols
    \/ ServerCompanies
    \/ loadExchangeSymbols
    \/ loadExchangeStockData
    \/ loadMarketIndexes
    \/ StartServices
    \/ ScheduledRefresh
    \/ onConnect
    \/ onConnectError
    \/ ReconnectTimer
    \/ onDisconnect
    \/ onServerDisconnect
    \/ ServerClientConnect
    \/ ServerClientSubscription
    \/ ServerMessage

SpecServer == Init /\ [][ServerNext]_vars

\* Repeated subscriptions: clients that subscribe again and again, with a
\* symbol listed once or twice and with symbols they hold already.
RepeatPayloads ==
    [kind : {"array"},
     symbols : {<<"VIC">>, <<"VHM">>, <<"VIC", "VIC">>, <<"VHM", "VIC">>}]

RepeatConnect == \E c \in Clients : ClientConnect(c) /\ HubHistory

RepeatSubscription ==
    \E c \in Clients, t \in SubEventTypes, d \in RepeatPayloads :
        handleSubscription(c, t, d) /\ HubHistory

RepeatNext == RepeatConnect \/ RepeatSubscription

SpecRepeat == Init /\ [][RepeatNext]_vars

\* The HTTP proxy: requests for target URLs with and without path and query.
ProxyNext ==
    \E target \in Targets, encoded \in BOOLEAN, extra \in BOOLEAN :
        proxyRequest(target, encoded, extra) /\ NoHistory

SpecProxy == Init /\ [][ProxyNext]_vars

TunnelNext ==
    \/ \E i \in Tunnels, target \in TargetParameters : wssConnection(i, target)
    \/ \E i \in Tunnels, event \in TargetEvents : targetEvent(i, event)
    \/ \E i \in Tunnels, event \in ClientEvents : clientEvent(i, event)
    \/ \E i \in Tunnels, from \in {"client", "target"} : tunnelMessage(i, from)

\* A handshake that was started ends (open or error), and a closing
\* handshake ends with the "close" event, on either side.  Nothing obliges a
\* client or a target server to close an open connection.
TunnelSettles(i) ==
    \/ tunnels[i].target = "CONNECTING" /\ \E event \in {"open", "error"} : targetEvent(i, event)
    \/ tunnels[i].target = "CLOSING" /\ targetEvent(i, "close")
    \/ tunnels[i].client = "CLOSING" /\ clientEvent(i, "close")

SpecTunnel ==
    Init /\ [][TunnelNext]_vars /\ \A i \in Tunnels : WF_vars(TunnelSettles(i))

\* ------------------------------------------------------------- Hub claims
InSymbolIndex(c, s) == MapHas(symbolSubscribers, s) /\ c \in symbolSubscribers[s]

InClientIndex(c, s) == MapHas(clientSubscriptions, c) /\ s \in clientSubscriptions[c]

\* C1: in every reachable Hub state, after any sequence of subscribe,
\* unsubscribe, disconnect and publish, the two indexes are mutual inverses:
\* clientId is in symbolSubscribers[symbol] iff symbol is in
\* clientSubscriptions[clientId].
IndexesMutualInverse ==
    /\ \A s \in DOMAIN symbolSubscribers : \A c \in symbolSubscribers[s] : InClientIndex(c, s)
    /\ \A c \in DOMAIN clientSubscriptions : \A s \in clientSubscriptions[c] : InSymbolIndex(c, s)

\* A publish has just run on indexes that hold two clients, one of them on
\* both symbols and the other on one.
IndexesMutualInverseWitness ==
    /\ lastOp.op = "message"
    /\ \E c \in DOMAIN clientSubscriptions : clientSubscriptions[c] = {"VIC", "VHM"}
    /\ \E c \in DOMAIN clientSubscriptions : Cardinality(clientSubscriptions[c]) = 1
    /\ \E s \in DOMAIN symbolSubscribers : Cardinality(symbolSubscribers[s]) = 2

InterestSet(cs, c) == IF MapHas(cs, c) THEN cs[c] ELSE {}

\* C2 as stated: subscribe(c, S) followed immediately by unsubscribe(c, S)
\* leaves both indexes exactly equal to their contents before the subscribe.
SubscribeUnsubscribeRestoresExactly ==
    roundTrip.valid => CurIndexes = Indexes(roundTrip.cs, roundTrip.ss)

\* C2 amended: when c held no symbol of S before the subscribe,
\* subscribe(c, S) followed immediately by unsubscribe(c, S) leaves the
\* symbol -> clients index exactly as before and every client's interest
\* set as before, an absent entry counting as the empty set; the only
\* entry the pair may add to the client -> symbols index is an empty one for c.
HeldNoneBefore ==
    \A i \in 1..Len(PayloadSymbols(lastOp.data)) :
        PayloadSymbols(lastOp.data)[i] \notin InterestSet(roundTrip.cs, lastOp.client)

SubscribeUnsubscribeRestores ==
    (roundTrip.valid /\ HeldNoneBefore) =>
        /\ symbolSubscribers = roundTrip.ss
        /\ \A c \in Clients :
               InterestSet(clientSubscriptions, c) = InterestSet(roundTrip.cs, c)
        /\ DOMAIN clientSubscriptions \subseteq (DOMAIN roundTrip.cs) \cup {lastOp.client}

\* A client that held VHM subscribed to <<VIC, VIC>> next to another
\* subscriber of VHM, and then unsubscribed from the same list.
SubscribeUnsubscribeRestoresWitness ==
    /\ roundTrip.valid
    /\ HeldNoneBefore
    /\ lastOp.data = [kind |-> "array", symbols |-> <<"VIC", "VIC">>]
    /\ InterestSet(roundTrip.cs, lastOp.client) = {"VHM"}
    /\ MapHas(roundTrip.ss, "VHM") /\ Cardinality(roundTrip.ss["VHM"]) = 2

\* C3: no symbol is mapped to an empty subscriber set; whenever unsubscribe
\* or disconnect removes the last subscriber of a symbol, the symbol's entry
\* is deleted from the symbol index.
NoEmptySubscriberSet ==
    /\ \A s \in DOMAIN symbolSubscribers : symbolSubscribers[s] # {}
    /\ lastOp.op \in {"unsubscribe", "disconnect"} =>
           \A s \in DOMAIN preIndexes.ss :
               (preIndexes.ss[s] = {lastOp.client} /\ ~InClientIndex(lastOp.client, s))
                   => ~MapHas(symbolSubscribers, s)

\* A disconnect removed the last subscriber of one symbol and left another
\* symbol with a subscriber.
NoEmptySubscriberSetWitness ==
    /\ lastOp.op = "disconnect"
    /\ \E s \in DOMAIN preIndexes.ss :
           preIndexes.ss[s] = {lastOp.client} /\ ~MapHas(symbolSubscribers, s)
    /\ DOMAIN symbolSubscribers # {}

\* --------------------------------------------------------- fan-out claims
\* The last handler was handleMessage and it reached the onUpdate callback.
Published == lastOp.op = "message" /\ ~MessageDropped(lastOp.data)

PublishedSymbol == lastOp.data.message.symbol

PublishedBytes == convertToBinaryData(lastOp.data.message)

\* Positions of the emit log that are socket.emit calls for client c.
EmitsTo(log, c) == {i \in 1..Len(log) : log[i].client = c /\ log[i].outcome # "skipped"}

Delivered(log, c) == \E i \in 1..Len(log) : log[i].client = c /\ log[i].outcome = "sent"

\* C4: after disconnect(c), c is absent from every symbol's subscriber set,
\* from the client -> symbols index and from the connection-handle map, and
\* no later publish delivers an event to c.
DisconnectedClientIsGone ==
    \A c \in Clients :
        socketState[c] = "gone" =>
            /\ \A s \in DOMAIN symbolSubscribers : c \notin symbolSubscribers[s]
            /\ ~MapHas(clientSubscriptions, c)
            /\ ~MapHas(connectedClients, c)
            /\ EmitsTo(emitLog, c) = {}

\* An event was delivered to a subscriber after another client disconnected.
DisconnectedClientIsGoneWitness ==
    /\ Published
    /\ \E c \in Clients : socketState[c] = "gone"
    /\ \E c \in Clients : Delivered(emitLog, c)

\* C5: publish delivers the event only to clients currently subscribed to
\* its symbol; a client whose interest set does not contain the symbol
\* receives nothing from that event.
OnlySubscribersReceive ==
    Published =>
        \A c \in Clients :
            PublishedSymbol \notin InterestSet(clientSubscriptions, c)
                => \A i \in 1..Len(emitLog) : emitLog[i].client # c

\* A holds VIC and VHM, B holds only VHM, a VIC event arrives: A receives
\* it, B does not.
OnlySubscribersReceiveWitness ==
    /\ Published
    /\ PublishedSymbol = "VIC"
    /\ \E a, b \in Clients :
           /\ InterestSet(clientSubscriptions, a) = {"VIC", "VHM"}
           /\ InterestSet(clientSubscriptions, b) = {"VHM"}
           /\ socketState[b] = "open"
           /\ Delivered(emitLog, a)
           /\ EmitsTo(emitLog, b) = {}

\* C6: publish for a symbol with no subscribers (no entry, or an empty set)
\* performs zero serialization operations and zero send operations.
NoSubscribers(symbol) ==
    ~MapHas(symbolSubscribers, symbol) \/ symbolSubscribers[symbol] = {}

NoWorkWithoutSubscribers ==
    (Published /\ NoSubscribers(PublishedSymbol)) =>
        serializeCalls = 0 /\ emitLog = << >>

\* A VIC event arrives while only VHM has subscribers.
NoWorkWithoutSubscribersWitness ==
    /\ Published
    /\ PublishedSymbol = "VIC"
    /\ NoSubscribers("VIC")
    /\ ~NoSubscribers("VHM")
    /\ \E c \in Clients : socketState[c] = "open"

\* C7: publish for a symbol with at least one subscriber serializes the
\* payload exactly once and sends the identical bytes to every subscriber
\* whose connection is open; a subscriber whose transport is not open is
\* skipped without an error and without stopping delivery to the rest.
SerializeOnceSendToOpen ==
    (Published /\ ~NoSubscribers(PublishedSymbol)) =>
        /\ serializeCalls = 1
        /\ Len(emitLog) = Cardinality(symbolSubscribers[PublishedSymbol])
        /\ \A c \in symbolSubscribers[PublishedSymbol] :
               IF SocketOpen(connectedClients, socketState, c)
               THEN /\ Cardinality(EmitsTo(emitLog, c)) = 1
                    /\ \A i \in EmitsTo(emitLog, c) :
                           /\ emitLog[i].bytes = PublishedBytes
                           /\ emitLog[i].eventType = lastOp.eventType
               ELSE /\ EmitsTo(emitLog, c) = {}
                    /\ \E i \in 1..Len(emitLog) :
                           emitLog[i].client = c /\ emitLog[i].outcome = "skipped"

\* The first subscriber visited has lost its transport and is skipped, the
\* second one is open and is sent the bytes.
SerializeOnceSendToOpenWitness ==
    /\ Published
    /\ Len(emitLog) = 2
    /\ emitLog[1].outcome = "skipped"
    /\ emitLog[2].outcome = "sent"
    /\ emitLog[2].bytes = PublishedBytes
    /\ serializeCalls = 1

\* C8: a send failure to one subscriber is isolated to that subscriber:
\* every other connected subscriber of the symbol still receives the event,
\* and the failure does not stop the publish.
Threw(log, c) == \E i \in 1..Len(log) : log[i].client = c /\ log[i].outcome = "threw"

SendFailureIsolated ==
    (Published /\ \E c \in Clients : Threw(emitLog, c)) =>
        \A c \in symbolSubscribers[PublishedSymbol] :
            (SocketOpen(connectedClients, socketState, c) /\ ~Threw(emitLog, c))
                => Delivered(emitLog, c)

\* The emit to the first subscriber threw and the second subscriber still
\* received the event.
SendFailureIsolatedWitness ==
    /\ Published
    /\ Len(emitLog) = 2
    /\ emitLog[1].outcome = "threw"
    /\ emitLog[2].outcome = "sent"

\* C9: delivery is at-most-once with no retry or buffering: a handler emits
\* to a client only while publishing the event it is handling, at most once
\* per client, and only to a client that is a subscriber of the event's
\* symbol with an open connection at that moment.
AtMostOnceStep ==
    \A i \in 1..Len(emitLog') :
        /\ lastOp'.op = "message"
        /\ ~MessageDropped(lastOp'.data)
        /\ \A j \in 1..Len(emitLog') : emitLog'[j].client = emitLog'[i].client => j = i
        /\ emitLog'[i].outcome # "skipped" =>
               /\ emitLog'[i].bytes = convertToBinaryData(lastOp'.data.message)
               /\ InClientIndex(emitLog'[i].client, lastOp'.data.message.symbol)
               /\ MapHas(connectedClients, emitLog'[i].client)
               /\ socketState[emitLog'[i].client] = "open"

AtMostOnceNoReplay == [][AtMostOnceStep]_vars

\* A VHM event was sent to one subscriber exactly once while the other
\* subscriber, whose connection was not open, got nothing.
AtMostOnceNoReplayWitness ==
    /\ Published
    /\ PublishedSymbol = "VHM"
    /\ MapHas(symbolSubscribers, "VHM")
    /\ \E c, d \in symbolSubscribers["VHM"] :
           /\ socketState[c] = "closed"
           /\ EmitsTo(emitLog, c) = {}
           /\ Cardinality(EmitsTo(emitLog, d)) = 1
           /\ Delivered(emitLog, d)

\* ------------------------------------------------------------ cache claims
\* The state a symbol had before the logged updates, empty if it had none.
PriorOf(symbol) == IF MapHas(initialData, symbol) THEN initialData[symbol] ELSE EmptyObject

\* Position of the last update of the log that sets field f, 0 if none does.
LastSetter(log, f) ==
    LET setters == {i \in 1..Len(log) : f \in DOMAIN log[i]}
    IN  IF setters = {} THEN 0 ELSE CHOOSE i \in setters : \A j \in setters : j <= i

\* Field-wise last-write-wins fold of the log over the prior state.
LastWriteWins(prior, log) ==
    [f \in (DOMAIN prior) \cup UNION {DOMAIN log[i] : i \in 1..Len(log)} |->
        IF LastSetter(log, f) = 0 THEN prior[f] ELSE log[LastSetter(log, f)][f]]

\* C10: for every sequence of partial updates applied to one symbol, the
\* resulting MarketState is the field-wise last-write-wins fold of those
\* updates over the prior state (empty if absent): each field holds the value
\* of the last update that set it, and a field set by no update keeps its
\* prior value or stays absent.
PartialUpdatesFold ==
    \A s \in (DOMAIN stockData) \cup (DOMAIN initialData) \cup (DOMAIN updateLog) :
        IF LogOf(s) = << >>
        THEN /\ MapHas(stockData, s) <=> MapHas(initialData, s)
             /\ MapHas(stockData, s) => stockData[s] = initialData[s]
        ELSE /\ MapHas(stockData, s)
             /\ stockData[s] = LastWriteWins(PriorOf(s), LogOf(s))

\* VIC was bulk-loaded, then took a match-price, a bid-ask and a second
\* match-price update with another price: the price is the last one, the
\* bid is the bid-ask one, and the reference price of the load is retained.
PartialUpdatesFoldWitness ==
    /\ MapHas(initialData, "VIC")
    /\ Len(LogOf("VIC")) = 3
    /\ "khopLenhGia" \in DOMAIN LogOf("VIC")[1]
    /\ "duMuaGia1" \in DOMAIN LogOf("VIC")[2]
    /\ "khopLenhGia" \in DOMAIN LogOf("VIC")[3]
    /\ LogOf("VIC")[1].khopLenhGia # LogOf("VIC")[3].khopLenhGia
    /\ stockData["VIC"].khopLenhGia = LogOf("VIC")[3].khopLenhGia
    /\ stockData["VIC"].duMuaGia1 = LogOf("VIC")[2].duMuaGia1
    /\ stockData["VIC"].duMuaGia1 # initialData["VIC"].duMuaGia1
    /\ stockData["VIC"].tc = initialData["VIC"].tc

\* ------------------------------------------------------------ bulk load
\* C11: a bulk load replaces the whole record of every symbol in its payload:
\* the stored record is exactly the payload's record, so a field the symbol
\* had before and the payload lacks is gone; a symbol the payload does not
\* name keeps its record, and stays absent if it was absent.
BulkLoadReplaces ==
    lastOp.op = "setMultipleStockData" =>
        LET stockDataMap == lastOp.data
            before == preRefresh.stockData
        IN  \A s \in (DOMAIN stockData) \cup (DOMAIN stockDataMap) \cup (DOMAIN before) :
                IF MapHas(stockDataMap, s)
                THEN MapHas(stockData, s) /\ stockData[s] = stockDataMap[s]
                ELSE /\ MapHas(stockData, s) <=> MapHas(before, s)
                     /\ MapHas(before, s) => stockData[s] = before[s]

\* A reduced snapshot of VIC was loaded over a record that carried bid levels
\* from a partial update, next to a VHM record the payload did not name.
BulkLoadReplacesWitness ==
    /\ lastOp.op = "setMultipleStockData"
    /\ lastOp.data = setStockData(EmptyMap, "VIC", ReducedRecord)
    /\ MapHas(preRefresh.stockData, "VIC")
    /\ "duMuaGia1" \in DOMAIN preRefresh.stockData["VIC"]
    /\ {"tc", "tran"} \subseteq DOMAIN preRefresh.stockData["VIC"]
    /\ preRefresh.stockData["VIC"]["tran"] # ReducedRecord["tran"]
    /\ DOMAIN stockData["VIC"] = {"tc", "tran"}
    /\ MapHas(preRefresh.stockData, "VHM")
    /\ MapHas(stockData, "VHM")

\* ------------------------------------------------------- atomic reads
\* The states a symbol went through: the prior state and the state after
\* each logged update.
StatesOf(symbol) ==
    {LastWriteWins(PriorOf(symbol), SubSeq(LogOf(symbol), 1, k)) : k \in 0..Len(LogOf(symbol))}

\* C12: a record obtained by a read is the complete state of its symbol
\* before or after one of the partial updates applied to it, never a mix of
\* some fields of an update with the old values of others; a symbol that was
\* never stored is not in the result.
ReadsAreAtomic ==
    lastOp.op = "getStockDataBySymbols" =>
        \A s \in Elements(lastOp.data.symbols) :
            IF MapHas(lastOp.data.result, s)
            THEN /\ lastOp.data.result[s] \in StatesOf(s)
                 /\ LogOf(s) # << >> \/ MapHas(initialData, s)
            ELSE LogOf(s) = << >> /\ ~MapHas(initialData, s)

\* A read of VIC after two partial updates of different kinds over a loaded
\* record: the result carries all fields of both updates.
ReadsAreAtomicWitness ==
    /\ lastOp.op = "getStockDataBySymbols"
    /\ MapHas(lastOp.data.result, "VIC")
    /\ MapHas(initialData, "VIC")
    /\ Len(LogOf("VIC")) = 2
    /\ "khopLenhGia" \in DOMAIN LogOf("VIC")[1]
    /\ "duMuaGia1" \in DOMAIN LogOf("VIC")[2]
    /\ lastOp.data.result["VIC"] = LastWriteWins(PriorOf("VIC"), LogOf("VIC"))
    /\ lastOp.data.result["VIC"] # initialData["VIC"]
    /\ lastOp.data.result["VIC"].khopLenhKL = LogOf("VIC")[1].khopLenhKL
    /\ lastOp.data.result["VIC"].duMuaKL1 = LogOf("VIC")[2].duMuaKL1

\* ---------------------------------------------------------- refresh claims
\* What a read of the group returns when the group is wholly of one run.
ExpectedGroup(exchange, run) ==
    [symbol \in Elements(GroupSymbolsOf(exchange, run)) |->
        transformCompressedToStockData(CompressedItemOf(symbol, run))]

\* What a read of the group returned when the running refresh began.
PreRefreshGroup(exchange) ==
    getStockDataByGroup(preRefresh.stockData, preRefresh.symbolsByGroup, exchange)

IsGroupRead == lastOp.op = "getStockDataByGroup" /\ lastOp.data.ready

\* HOSE has been replaced and the answer to the symbols request of HNX,
\* sent in the same turn, has not arrived.
HoseDoneHnxPending ==
    /\ ParkedAt("symbols")
    /\ exchanges[refresh.group] = "HNX"

GroupRefreshAtomic ==
    (IsGroupRead /\ refresh.outcome = "running") =>
        \/ lastOp.data.result = PreRefreshGroup(lastOp.data.group)
        \/ lastOp.data.result = ExpectedGroup(lastOp.data.group, refresh.run)

\* Exchanges whose loadExchangeData call returned before the refresh failed.
CompletedAtFailure ==
    IF refresh.at = "loadMarketIndexes" THEN Elements(exchanges)
    ELSE {exchanges[i] : i \in 1..(refresh.group - 1)}

\* C15: when a scheduled refresh fails part-way, the groups already
\* refreshed hold their new data, every group not yet completed holds
\* exactly its pre-refresh data, and the failure stays inside the scheduler:
\* the server keeps running and a next refresh can start.
FailedRefreshKeepsRest ==
    (lastOp.op = "initializeFailed" /\ refresh.run > 1) =>
        /\ refresh.pc = "idle"
        /\ \A g \in CompletedAtFailure :
               getStockDataByGroup(stockData, symbolsByGroup, g) = ExpectedGroup(g, refresh.run)
        /\ \A g \in Elements(exchanges) \ CompletedAtFailure :
               getStockDataByGroup(stockData, symbolsByGroup, g) = PreRefreshGroup(g)

\* ------------------------------------------------- upstream feed claims
\* The event was not decoded into a message with a symbol: its channel has no
\* listener and no message type, decode threw, or the symbol is empty.
Dropped(type, wire) ==
    \/ type \notin {"match-price", "bid-ask", "index"}
    \/ ~wire.decodes
    \/ wire.message.symbol = ""

IsDroppedMessage(op) == op.op = "message" /\ Dropped(op.eventType, op.data)

IsHandledMessage(op) == op.op = "message" /\ ~Dropped(op.eventType, op.data)

\* C18: an upstream message that fails to decode (decode error, channel
\* without message type, missing symbol) is dropped: the step that handles it
\* leaves the cache, the Hub indexes and the upstream connection state as they
\* were and emits nothing; the message handled right after it is applied to
\* the cache and sent to the open subscribers of its symbol as usual.
DroppedMessageStep ==
    /\ IsDroppedMessage(lastOp') =>
           /\ UNCHANGED <<hubVars, cacheVars, feedVars>>
           /\ emitLog' = << >>
           /\ serializeCalls' = 0
    /\ (IsDroppedMessage(lastOp) /\ IsHandledMessage(lastOp')) =>
           LET message == lastOp'.data.message
           IN  /\ MapHas(stockData', message.symbol)
               /\ stockData'[message.symbol].khopLenhGia = message.matchPrice
               /\ \A c \in Clients :
                      (InSymbolIndex(c, message.symbol) /\ socketState[c] = "open")
                          => Delivered(emitLog', c)

DroppedMessageLeavesNoTrace == [][DroppedMessageStep]_vars

\* A message without symbol was dropped while the connection was up, VIC was
\* cached and a client was subscribed to VIC.
DroppedMessageLeavesNoTraceWitness ==
    /\ IsDroppedMessage(lastOp)
    /\ lastOp.eventType \in FeedTypes
    /\ lastOp.data.decodes
    /\ isConnected
    /\ upstream.state = "open"
    /\ MapHas(stockData, "VIC")
    /\ \E c \in Clients : InSymbolIndex(c, "VIC") /\ socketState[c] = "open"
    /\ emitLog = << >>
    /\ ~MapHas(stockData, "")

\* C19: once maxReconnectAttempts consecutive connection attempts have
\* failed, the connection has been given up and no automatic attempt is
\* pending or in flight.
ExhaustedStopsRetrying ==
    (upstream.manual = 0 /\ ~isConnected /\ reconnectAttempts >= maxReconnectAttempts)
        => upstream.state = "failed"

SnapshotReflects(type, message) ==
    IF type = "index"
    THEN /\ MapHas(marketIndexes, message.symbol)
         /\ marketIndexes[message.symbol].price = message.price
    ELSE /\ MapHas(stockData, message.symbol)
         /\ IF type = "match-price"
            THEN stockData[message.symbol].khopLenhGia = message.matchPrice
            ELSE stockData[message.symbol].duMuaGia1 = message.bidPrices[1].price

\* C16: whenever a client is sent an event of any of the three channels,
\* the cache already holds that event's values for its symbol.
ReceivedEventInSnapshot ==
    (lastOp.op = "message" /\ \E c \in Clients : Delivered(emitLog, c))
        => SnapshotReflects(lastOp.eventType, lastOp.data.message)

\* The record a client is sent for the n-th arrival.
EmitOf(n, input) ==
    [n |-> n, eventType |-> input.type, bytes |-> <<"Buffer", "JSON", input.wire.message>>]

\* C17: upstream messages are handled one at a time in arrival order: the
\* step that handles arrival n appends to a client's deliveries at most one
\* record, that of arrival n itself, and does so for every subscriber of the
\* symbol whose socket is open and whose emit does not throw; no other step
\* delivers anything.  Deliveries are therefore an order-preserving
\* subsequence of the arrivals, without reordering, coalescing or batching.
InOrderStep ==
    /\ \A c \in Clients :
           \/ inbox'[c] = inbox[c]
           \/ /\ Len(arrived') = Len(arrived) + 1
              /\ inbox'[c] = Append(inbox[c], EmitOf(Len(arrived'), arrived'[Len(arrived')]))
    /\ arrived' # arrived =>
           /\ SubSeq(arrived', 1, Len(arrived)) = arrived
           /\ \A c \in Clients :
                  ( /\ InSymbolIndex(c, arrived'[Len(arrived')].wire.message.symbol)
                    /\ socketState[c] = "open"
                    /\ ~Threw(emitLog', c) ) => inbox'[c] # inbox[c]

InOrderDelivery == [][InOrderStep]_vars

\* Two arrivals on different channels; one client was sent both, in arrival
\* order, another only the second.
InOrderDeliveryWitness ==
    /\ Len(arrived) = 2
    /\ arrived[1].type # arrived[2].type
    /\ \E c \in Clients :
           /\ Len(inbox[c]) = 2
           /\ inbox[c][1] = EmitOf(1, arrived[1])
           /\ inbox[c][2] = EmitOf(2, arrived[2])
    /\ \E d \in Clients : inbox[d] = <<EmitOf(2, arrived[2])>>

\* --------------------------------------------------- upstream subscription
\* The three subscription requests of one subscribeToSymbols() call.
IsSubscriptionRequest(emits) ==
    /\ Len(emits) = 3
    /\ emits[1].channel = "match-price"
    /\ emits[2].channel = "bid-ask"
    /\ emits[3].channel = "index"

\* C21: after every successful upstream connect, first or repeated, the
\* manager is connected, its attempt counter is 0 and the subscription
\* requests have been emitted; the upstream socket emits nothing while the
\* manager is not connected.
ConnectResubscribes ==
    /\ lastOp.op = "upstreamConnect" =>
           /\ isConnected
           /\ reconnectAttempts = 0
           /\ IsSubscriptionRequest(upstreamEmits)
           /\ subscribed = FeedTypes
    /\ upstreamEmits # << >> => isConnected /\ upstream.state = "open"

\* A reconnection succeeded after failed attempts had raised the counter.
ConnectResubscribesWitness ==
    /\ lastOp.op = "upstreamConnect"
    /\ lastOp.data.state = "reopening"
    /\ lastOp.data.counter >= 2
    /\ reconnectAttempts = 0
    /\ IsSubscriptionRequest(upstreamEmits)

\* The symbols of all groups of the Snapshot.
TrackedSymbols(groups) == UNION {Elements(groups[g]) : g \in DOMAIN groups}

\* C22: each time the upstream connection is established, the subscription
\* requests sent for trades and for order-book levels name every symbol of
\* every group the Snapshot holds at that moment.
SubscriptionCoversSnapshot ==
    lastOp.op = "upstreamConnect" =>
        /\ IsSubscriptionRequest(upstreamEmits)
        /\ TrackedSymbols(symbolsByGroup) \subseteq Elements(upstreamEmits[1].symbols)
        /\ TrackedSymbols(symbolsByGroup) \subseteq Elements(upstreamEmits[2].symbols)

\* C23: in every reachable state the attempt counter lies between 0 and
\* the configured maximum.
CounterBounded == reconnectAttempts \in 0..maxReconnectAttempts

\* ------------------------------------------------------------ fatal errors
\* process.exit(1) has not run.
Alive == refresh.pc # "exited"

\* What the read endpoints serve from.
Served == <<stockData, marketIndexes, allSymbols, symbolsByGroup, isInitialized>>

\* The step is a delivery to a client whose socket.emit threw.
DeliveryFailed == \E i \in 1..Len(emitLog') : emitLog'[i].outcome = "threw"

\* The step is an upstream message that did not decode, a failed connection
\* attempt, a failed start of the realtime manager or of the scheduler, or
\* the failure of a scheduled refresh.
CaughtFailure ==
    \/ lastOp'.op = "message" /\ ~lastOp'.data.decodes
    \/ lastOp'.op = "connect_error"
    \/ lastOp'.op = "startServices" /\ ~(lastOp'.data.realtime /\ lastOp'.data.scheduler)
    \/ lastOp'.op = "initializeFailed" /\ refresh.run > 1

FatalOnlyAtStartupStep ==
    /\ CaughtFailure => Alive' /\ Served' = Served
    /\ DeliveryFailed => Alive'
    /\ Alive /\ ~Alive' => lastOp'.op = "initializeFailed" /\ refresh.run = 1

UnknownGroupReadStep ==
    (lastOp'.op = "readGroupByName" /\ ~MapHas(symbolsByGroup, lastOp'.data.group)) =>
        /\ lastOp'.data.symbols = << >>
        /\ lastOp'.data.result = EmptyMap
        /\ Served' = Served
        /\ Alive'

\* C25: a read by a group name that symbolsByGroup has no entry for returns
\* an empty symbol list and an empty record map, and changes nothing of the
\* cache.
UnknownGroupReadsEmpty == [][UnknownGroupReadStep]_vars

\* "hose" was read while the cache holds the records of group HOSE and a
\* refresh is under way.
UnknownGroupReadsEmptyWitness ==
    /\ lastOp.op = "readGroupByName"
    /\ lastOp.data.group = "hose"
    /\ lastOp.data.ready
    /\ lastOp.data.result = EmptyMap
    /\ getStockDataByGroup(stockData, symbolsByGroup, "HOSE") # EmptyMap
    /\ refresh.outcome = "running"

\* --------------------------------------------------------- entry lifetime
\* C26: no step removes an entry of stockData or of marketIndexes: the
\* symbols with an entry before a live event, a load step or any other step
\* have one after it, so the number of entries never decreases.
EntriesNeverDeleted ==
    [][/\ DOMAIN stockData \subseteq DOMAIN stockData'
       /\ DOMAIN marketIndexes \subseteq DOMAIN marketIndexes'
       /\ Cardinality(DOMAIN stockData) <= Cardinality(DOMAIN stockData')]_vars

\* A refresh has completed whose HOSE list no longer names VHM, and VHM
\* still has its entry; FPT, first seen in a live event, has one too.
EntriesNeverDeletedWitness ==
    /\ refresh.run >= 2 /\ refresh.outcome = "completed"
    /\ "VHM" \in DOMAIN stockData
    /\ "VHM" \notin TrackedSymbols(symbolsByGroup)
    /\ "FPT" \in DOMAIN preRefresh.stockData
    /\ "FPT" \in DOMAIN stockData

\* ------------------------------------------------------------- idempotence
\* The client of the subscribe that is the step holds every symbol it names.
HoldsAll(c, symbolSet) == \A sym \in symbolSet : InClientIndex(c, sym) /\ InSymbolIndex(c, sym)

SubscribeIdempotentStep ==
    lastOp'.op = "subscribe" =>
        LET c == lastOp'.client
            d == lastOp'.data
            named == Elements(PayloadSymbols(d))
            once == [kind |-> "array", symbols |-> Unique(<< >>, PayloadSymbols(d), 1)]
        IN  /\ (named # {} /\ HoldsAll(c, named)) => CurIndexes' = CurIndexes
            /\ Subscribe(CurIndexes', c, d) = CurIndexes'
            /\ ~PayloadRejected(d) => CurIndexes' = Subscribe(CurIndexes, c, once)

\* C27: a subscribe naming only symbols the client already holds changes
\* neither index; repeating a subscribe changes nothing further; and a
\* symbol listed twice in one call counts once.
SubscribeIdempotent == [][SubscribeIdempotentStep]_vars

\* A client subscribed again to VIC, listed twice, while it and another
\* client hold VIC: the indexes are what they were before the call.
SubscribeIdempotentWitness ==
    /\ lastOp.op = "subscribe"
    /\ lastOp.data.kind = "array" /\ lastOp.data.symbols = <<"VIC", "VIC">>
    /\ preIndexes = CurIndexes
    /\ InClientIndex(lastOp.client, "VIC")
    /\ Cardinality(symbolSubscribers["VIC"]) = 2

\* ----------------------------------------------------------- index events
\* Clients with a registered socket that is connected.
ConnectedNow == {c \in Clients : SocketOpen(connectedClients, socketState, c)}

\* C28: an index event that was handled is delivered to every connected
\* client or to none, whatever the clients have subscribed to.
IndexAllOrNone ==
    (lastOp.op = "message" /\ lastOp.eventType = "index") =>
        LET receivers == {c \in Clients : Delivered(emitLog, c)}
        IN  receivers = {} \/ receivers = ConnectedNow

\* ----------------------------------------------------------- degraded mode
\* The step is a change of the upstream connection: a connect, a loss, a
\* failed attempt (the last of which gives up) or the start of a retry.
ConnectionChange ==
    lastOp'.op \in {"upstreamConnect", "upstreamDisconnect", "serverDisconnect",
                    "connect_error", "reconnect_attempt"}

DegradedStep ==
    ConnectionChange =>
        /\ Served' = Served
        /\ isReady(isInitialized', allSymbols', stockData')
               = isReady(isInitialized, allSymbols, stockData)
        /\ \A i \in 1..Len(exchanges) :
               getStockDataByGroup(stockData', symbolsByGroup', exchanges[i])
                   = getStockDataByGroup(stockData, symbolsByGroup, exchanges[i])

\* C29: a change of the upstream connection state leaves the cache, its
\* readiness and the result of every group read as they were.
DegradedKeepsSnapshot == [][DegradedStep]_vars

\* The retries after a lost connection have given up; the cache is ready and
\* still holds the loaded groups and the entry a live event created.
DegradedKeepsSnapshotWitness ==
    /\ lastOp.op = "connect_error"
    /\ upstream.state = "failed"
    /\ ~isConnected
    /\ isReady(isInitialized, allSymbols, stockData)
    /\ "FPT" \in DOMAIN stockData
    /\ getStockDataByGroup(stockData, symbolsByGroup, "HOSE") # EmptyMap

\* ------------------------------------------------------------ Proxy claims
\* lastOp is a proxy request whose target parameter arrived as the client
\* wrote the target URL.
TargetGiven ==
    /\ lastOp.op = "proxy"
    /\ lastOp.data.received = UrlText(lastOp.data.target)

\* Path p and query q of the target as a request line carries them: an
\* empty path is "/", an empty query has no "?".
TargetPathAndQuery(target) ==
    PathText(IF target.path = << >> THEN <<"">> ELSE target.path)
        \o (IF QueryText(target.query) = << >> THEN << >>
            ELSE <<"?">> \o QueryText(target.query))

\* C30: for every target URL with path p and query q given as ?target=, the
\* request is forwarded to the target host with exactly path p and query q;
\* the /proxy prefix and the parameters of the proxy request are not
\* forwarded.
ProxyPreservesPathAndQuery ==
    TargetGiven =>
        /\ lastOp.data.forwarded.status = "forwarded"
        /\ lastOp.data.forwarded.host = lastOp.data.target.host
        /\ lastOp.data.forwarded.path = TargetPathAndQuery(lastOp.data.target)

\* ------------------------------------------------- refresh and live events
\* A match-price event for a symbol was merged while the stock data request
\* of a scheduled refresh was in flight, and the next step is the cache write
\* of that request, whose response covers the symbol.
LiveEventThenRefreshWrite ==
    /\ IsHandledMessage(lastOp)
    /\ lastOp.eventType = "match-price"
    /\ ParkedAt("stockData")
    /\ refresh.run > 1
    /\ lastOp'.op = "setMultipleStockData"
    /\ MapHas(lastOp'.data, lastOp.data.message.symbol)

RefreshKeepsLiveEventStep ==
    LiveEventThenRefreshWrite =>
        stockData'[lastOp.data.message.symbol].khopLenhGia = lastOp.data.message.matchPrice

\* C31: a refresh never reverts a symbol to data older than a live event
\* already applied: if the event is merged between the network request of the
\* refresh and its cache write, the symbol still holds the event's values
\* after the write.
RefreshKeepsLiveEvent == [][RefreshKeepsLiveEventStep]_vars

\* lastOp read a group whose loadExchangeData call the running refresh has not
\* begun.
ReadOfPendingGroup ==
    /\ IsGroupRead
    /\ refresh.outcome = "running"
    /\ refresh.pc \in {"symbols", "stockData"}
    /\ \E i \in (refresh.group + 1)..Len(exchanges) : exchanges[i] = lastOp.data.group

\* C32: during a refresh, a read of a group that has not yet been refreshed
\* returns the pre-refresh record of every symbol of the group, also when the
\* group shares symbols with a group already refreshed (VN30 within HOSE,
\* HNX30 within HNX).
PendingGroupReadsOld ==
    ReadOfPendingGroup => lastOp.data.result = PreRefreshGroup(lastOp.data.group)

\* ------------------------------------------------------ feed status claims
\* getStatus(): the two fields the status endpoint reports.
StatusSurface == [isConnected |-> isConnected, reconnectAttempts |-> reconnectAttempts]

\* C33: in every reachable state of the feed client, isConnected implies
\* reconnectAttempts = 0; a counter other than 0 is observed only while
\* disconnected.
ConnectedMeansNoFailedAttempts ==
    /\ StatusSurface.isConnected => StatusSurface.reconnectAttempts = 0
    /\ StatusSurface.reconnectAttempts # 0 => ~StatusSurface.isConnected

\* The feed connected after failed attempts: the handler found a counter
\* above 0 and the status shows a connected feed with counter 0.
ConnectedMeansNoFailedAttemptsWitness ==
    /\ lastOp.op = "upstreamConnect"
    /\ lastOp.data.counter > 0
    /\ StatusSurface = [isConnected |-> TRUE, reconnectAttempts |-> 0]

\* -------------------------------------------------------- channel claims
\* C34: downstream subscriptions are kept per channel kind.  Where every
\* subscription of every client is sent on the match-price channel, a client
\* is sent match-price events only: no bid-ask event and no index event.
SubscribedChannelOnly ==
    (IsHandledMessage(lastOp) /\ lastOp.eventType # "match-price")
        => \A c \in Clients : ~Delivered(emitLog, c)

\* ------------------------------------------------ malformed message claims
\* The payload is invalid JSON, null, or carries a symbols value that is not
\* an array: a truthy one ("notarray") or a falsy one such as null, 0 or ""
\* ("nosymbols").
MalformedPayload(data) == data.kind \in {"badjson", "null", "notarray", "nosymbols"}

\* C35: a malformed subscribe or unsubscribe message leaves both Hub indexes
\* exactly as they were.
MalformedLeavesIndexes ==
    (lastOp.op \in {"subscribe", "unsubscribe"} /\ MalformedPayload(lastOp.data))
        => CurIndexes = preIndexes

\* ------------------------------------------------- connection map claims
\* The clients some index refers to.
IndexedClients ==
    DOMAIN clientSubscriptions
        \cup UNION {symbolSubscribers[s] : s \in DOMAIN symbolSubscribers}

\* C36: with the messages of a client arriving only between its connection
\* and its disconnect event, every client with an entry in the
\* client -> symbols index and every client in a subscriber set has a
\* connection handle in connectedClients; no index refers to a client that
\* has disconnected.
IndexedClientsAreConnected ==
    \A c \in IndexedClients :
        /\ MapHas(connectedClients, c)
        /\ connectedClients[c] = c
        /\ socketState[c] \in {"open", "closed"}

\* A subscribed client disconnected while another client stays subscribed.
IndexedClientsAreConnectedWitness ==
    /\ lastOp.op = "disconnect"
    /\ MapHas(preIndexes.cs, lastOp.client)
    /\ preIndexes.cs[lastOp.client] # {}
    /\ lastOp.client \notin IndexedClients
    /\ IndexedClients # {}

\* ------------------------------------------------------------ frame claims
\* The symbols whose subscriber set in ss lists client d.
MembershipsOf(ss, d) == {s \in DOMAIN ss : d \in ss[s]}

\* C37: subscribe, unsubscribe and disconnect issued by client c leave the
\* interest set of every other client, and the membership of every other
\* client in every subscriber set, unchanged; c's operation prunes the entry
\* of a symbol only when c was its last subscriber.
OtherClientsUntouched ==
    lastOp.op \in {"subscribe", "unsubscribe", "disconnect"} =>
        /\ \A d \in Clients \ {lastOp.client} :
               /\ MapHas(clientSubscriptions, d) = MapHas(preIndexes.cs, d)
               /\ InterestSet(clientSubscriptions, d) = InterestSet(preIndexes.cs, d)
               /\ MembershipsOf(symbolSubscribers, d) = MembershipsOf(preIndexes.ss, d)
        /\ \A s \in DOMAIN preIndexes.ss \ DOMAIN symbolSubscribers :
               preIndexes.ss[s] = {lastOp.client}

\* Two clients held VIC and one of them also VHM alone; that one left both
\* with one operation: VHM was pruned, VIC stays with the other client.
OtherClientsUntouchedWitness ==
    /\ lastOp.op \in {"unsubscribe", "disconnect"}
    /\ MapHas(preIndexes.ss, "VIC") /\ MapHas(preIndexes.ss, "VHM")
    /\ preIndexes.ss["VHM"] = {lastOp.client}
    /\ lastOp.client \in preIndexes.ss["VIC"]
    /\ ~MapHas(symbolSubscribers, "VHM")
    /\ MapHas(symbolSubscribers, "VIC")
    /\ symbolSubscribers["VIC"] = preIndexes.ss["VIC"] \ {lastOp.client}

\* -------------------------------------------------------- readiness claims
ReadyNow == isReady(isInitialized, allSymbols, stockData)

\* C38: once the Snapshot is ready it stays ready in every later state: no
\* scheduled refresh, whether it succeeds, fails part-way or returns an empty
\* symbol list, makes it not ready, and no read of a group falls back to the
\* not-ready response.
ReadyStaysReady == [][ReadyNow => ReadyNow']_vars

\* ---------------------------------------------------------- cleanup claims
\* C39: after RealtimeManager.cleanup(), in whichever connection state it
\* was called, the upstream connection is closed and no further automatic
\* connection attempt occurs: the Manager starts no attempt and holds no open
\* connection once cleanup() has run.
CleanupClosesUpstream == upstream.state \notin {"orphan reopening", "orphan open"}

\* ----------------------------------------------------------- tunnel claims
\* C40: no target connection outlives its client: once the client
\* connection of a tunnel is closed, the paired target connection is
\* eventually closed, whether it was still connecting or open when the client
\* closed.
TargetClosesAfterClient ==
    \A i \in Tunnels :
        (tunnels[i].client = "CLOSED") ~> (tunnels[i].target \in {"NONE", "CLOSED"})

====
